---- MODULE Spec2Model ----
(***************************************************************************)
(* A model of the Opendatasoft MCP server: the API client (src/ods_api.py) *)
(* and the tools built on it (src/tools/*.py).                             *)
(*                                                                         *)
(* One tool (or client method) invocation is a small state machine: every  *)
(* upstream request is a suspension point, so there is one action per      *)
(* request, which issues the request, receives either a failure or a JSON  *)
(* document and runs the code up to the next request or the return.        *)
(*                                                                         *)
(* The tools are coroutines on one event loop: tool..ret are the frame of  *)
(* the invocation that is running, and a second invocation waits in parked *)
(* until the running one is suspended at a request.                        *)
(***************************************************************************)
EXTENDS Integers, Sequences, FiniteSets, TLC

VARIABLES
    client,   \* the shared OdsApiClient: base_url, api_key, api_path
    tool,     \* the tool or client method invoked ("idle" before the call)
    args,     \* its arguments
    pc,       \* the position of the invocation
    loc,      \* its local variables, by name
    reqs,     \* the upstream requests issued so far, in order
    resps,    \* what each of them came back with: a failure or a document
    ret,      \* how the invocation ended: nothing yet, a text, a value, an exception
    parked    \* the frame of a second invocation, suspended at a request or ended

vars == <<client, tool, args, pc, loc, reqs, resps, ret, parked>>

(***************************************************************************)
(* Python values.  A value carries its type, so that isinstance and        *)
(* truthiness can be modelled: None, str, int, float, list.                *)
(***************************************************************************)
NoneV == [t |-> "none"]
PyStr(s) == [t |-> "str", v |-> s]
PyInt(n) == [t |-> "int", v |-> n]
PyFloat(k) == [t |-> "float", v |-> k]
PyList(s) == [t |-> "list", v |-> s]

\* bool(x) as used by `if x:`.
Truthy(x) ==
    CASE x.t = "none" -> FALSE
      [] x.t = "str" -> x.v # ""
      [] x.t = "int" -> x.v # 0
      [] x.t = "float" -> x.v # 0
      [] x.t = "list" -> x.v # <<>>
      [] x.t = "chars" -> x.v # <<>>
      [] OTHER -> TRUE

\* isinstance(x, (int, float))
IsNumber(x) == x.t \in {"int", "float"}

\* A JSON object (a dict read with .get): a function from its keys.
EmptyDoc == [k \in {} |-> NoneV]
Has(d, k) == k \in DOMAIN d
Get(d, k, default) == IF k \in DOMAIN d THEN d[k] ELSE default

\* An insertion-ordered dict built by the code: a sequence of key/value pairs.
DictHas(d, key) == \E i \in DOMAIN d : d[i].k = key
DictGet(d, key) == d[CHOOSE i \in DOMAIN d : d[i].k = key].v
DictSet(d, key, val) ==
    IF DictHas(d, key)
    THEN [i \in DOMAIN d |-> IF d[i].k = key THEN [k |-> key, v |-> val] ELSE d[i]]
    ELSE Append(d, [k |-> key, v |-> val])
DictKeySeq(d) == [i \in DOMAIN d |-> d[i].k]

\* sep.join(parts)
RECURSIVE JoinStr(_, _)
JoinStr(parts, sep) ==
    IF parts = <<>> THEN ""
    ELSE IF Len(parts) = 1 THEN parts[1]
    ELSE parts[1] \o sep \o JoinStr(Tail(parts), sep)

\* "".join(pieces[lo..hi]), by halves
RECURSIVE ConcatRange(_, _, _)
ConcatRange(pieces, lo, hi) ==
    IF lo > hi THEN ""
    ELSE IF lo = hi THEN pieces[lo]
    ELSE LET mid == (lo + hi) \div 2
         IN  ConcatRange(pieces, lo, mid) \o ConcatRange(pieces, mid + 1, hi)

\* "".join(pieces)
Concat(pieces) == ConcatRange(pieces, 1, Len(pieces))

\* the concatenation of the sequences parts[lo..hi], by halves
RECURSIVE FlattenRange(_, _, _)
FlattenRange(parts, lo, hi) ==
    IF lo > hi THEN <<>>
    ELSE IF lo = hi THEN parts[lo]
    ELSE LET mid == (lo + hi) \div 2
         IN  FlattenRange(parts, lo, mid) \o FlattenRange(parts, mid + 1, hi)

\* the concatenation of a sequence of sequences
Flatten(parts) == FlattenRange(parts, 1, Len(parts))

(***************************************************************************)
(* Floating point.  Python floats are binary floating-point numbers whose  *)
(* operations round to the nearest representable value, ties to even.  The *)
(* model keeps that arithmetic at a reduced width: a float is a multiple k *)
(* of 2^-FloatFracBits with at most FloatPrecision significant bits (53    *)
(* bits and 2^-1074 for a Python float), and stands for k / 2^FloatFracBits.*)
(***************************************************************************)
FloatPrecision == 5
FloatFracBits == 9
FloatOne == 2 ^ FloatFracBits

BitLength(n) == IF n = 0 THEN 0 ELSE CHOOSE b \in 1..30 : 2 ^ (b - 1) <= n /\ n < 2 ^ b

\* The float nearest to the rational n / d (n >= 0, d > 0), ties to even.
FloatRound(n, d) ==
    LET b == BitLength(n \div d)
        step == IF b <= FloatPrecision THEN 1 ELSE 2 ^ (b - FloatPrecision)
        m == n \div (d * step)
        r == n % (d * step)
        up == 2 * r > d * step \/ (2 * r = d * step /\ m % 2 = 1)
    IN  (IF up THEN m + 1 ELSE m) * step

\* float(v) of a small integer v
FloatOf(v) == FloatRound(v * FloatOne, 1)
FloatAdd(x, y) == FloatRound(x + y, 1)
FloatSub(x, y) == FloatRound(x - y, 1)
\* x / n and i * x for an integer n or i
FloatDivInt(x, n) == FloatRound(x, n)
FloatMulInt(i, x) == FloatRound(i * x, 1)

\* The digits of the fraction f / FloatOne (0 <= f < FloatOne), exact.
RECURSIVE FractionDigits(_)
FractionDigits(f) ==
    IF f = 0 THEN ""
    ELSE ToString((f * 10) \div FloatOne) \o FractionDigits((f * 10) % FloatOne)

\* repr(x) for a float whose exact decimal expansion is its shortest repr
FloatRepr(k) ==
    ToString(k \div FloatOne) \o "."
      \o (IF k % FloatOne = 0 THEN "0" ELSE FractionDigits(k % FloatOne))

\* f"{x:.2f}": the exact value rounded to hundredths, ties to even
Format2f(k) ==
    LET h == (k * 100) \div FloatOne
        r == (k * 100) % FloatOne
        hundredths == IF 2 * r > FloatOne \/ (2 * r = FloatOne /\ h % 2 = 1)
                      THEN h + 1 ELSE h
        cents == hundredths % 100
    IN  ToString(hundredths \div 100) \o "."
          \o (IF cents < 10 THEN "0" ELSE "") \o ToString(cents)

(***************************************************************************)
(* OdsApiClient                                                            *)
(***************************************************************************)
\* str.rstrip('/') on a text given as its pieces, every "/" a piece of its own.
RECURSIVE RStripSlash(_)
RStripSlash(s) ==
    IF s # <<>> /\ s[Len(s)] = "/" THEN RStripSlash(SubSeq(s, 1, Len(s) - 1)) ELSE s

\* OdsApiClient.__init__
NewClient(base_url, api_key) ==
    [base_url |-> Concat(RStripSlash(base_url)),
     api_key  |-> api_key,
     api_path |-> "/api/explore/v2.1"]

\* (mutant) the header sent whether or not a key is configured
RequestHeaders_Always(c) ==
    <<[k |-> "Authorization",
       v |-> "Apikey " \o (IF c.api_key = NoneV THEN "None" ELSE c.api_key.v)]>>

\* The GET request _make_request sends: url, headers, query parameters
\* (params is None when the caller passes none).
RequestHeaders(c) ==
    IF Truthy(c.api_key)
    THEN <<[k |-> "Authorization", v |-> "Apikey " \o c.api_key.v]>>
    ELSE <<>>

Request(c, path, params) ==
    [url     |-> c.base_url \o c.api_path \o path,
     headers |-> RequestHeaders(c),
     params  |-> params]

\* The outcomes of `await client.get(...); raise_for_status(); json()`:
\* an exception with a message, or the decoded document.
Errors == {"HTTP 500", "ConnectError"}
Failure(e) == [ok |-> FALSE, exc |-> e]
Success(doc) == [ok |-> TRUE, doc |-> doc]

\* (mutant) the publisher clause collected before the caller's where clause
ListWhereClauses_PublisherFirst(where, publisher, theme) ==
    (IF Truthy(publisher) THEN <<"publisher=\"" \o publisher.v \o "\"">> ELSE <<>>)
    \o (IF Truthy(where) THEN <<where.v>> ELSE <<>>)
    \o (IF Truthy(theme) THEN <<"theme=\"" \o theme.v \o "\"">> ELSE <<>>)

\* list_datasets: the where clauses collected from where, publisher, theme.
ListWhereClauses(where, publisher, theme) ==
    (IF Truthy(where) THEN <<where.v>> ELSE <<>>)
    \o (IF Truthy(publisher) THEN <<"publisher=\"" \o publisher.v \o "\"">> ELSE <<>>)
    \o (IF Truthy(theme) THEN <<"theme=\"" \o theme.v \o "\"">> ELSE <<>>)

\* list_datasets: the query parameters.
ListDatasetsParams(search, publisher, theme, where, limit, offset) ==
    LET p0 == <<[k |-> "limit", v |-> PyInt(limit)], [k |-> "offset", v |-> PyInt(offset)]>>
        wc == ListWhereClauses(where, publisher, theme)
        p1 == IF wc # <<>> THEN DictSet(p0, "where", PyStr(JoinStr(wc, " AND "))) ELSE p0
    IN  IF Truthy(search)
        THEN DictSet(p1, "where",
                 PyStr("\"" \o search.v \o "\""
                     \o (IF DictHas(p1, "where")
                         THEN " AND " \o DictGet(p1, "where").v ELSE "")))
        ELSE p1

ListDatasetsRequest(c, search, publisher, theme, where, limit, offset) ==
    Request(c, "/catalog/datasets",
            [t |-> "dict",
             v |-> ListDatasetsParams(search, publisher, theme, where, limit, offset)])

\* get_dataset: no query parameters.
GetDatasetRequest(c, dataset_id) ==
    Request(c, "/catalog/datasets/" \o dataset_id, NoneV)

\* (mutant) an absent select clause sent as the wildcard
RecordsParams_Wildcard(select, where, group_by, order_by, limit, offset) ==
    LET p0 == <<[k |-> "limit", v |-> PyInt(limit)], [k |-> "offset", v |-> PyInt(offset)]>>
        p1 == DictSet(p0, "select", IF Truthy(select) THEN select ELSE PyStr("*"))
        p2 == IF Truthy(where) THEN DictSet(p1, "where", where) ELSE p1
        p3 == IF Truthy(group_by) THEN DictSet(p2, "group_by", group_by) ELSE p2
    IN  IF Truthy(order_by) THEN DictSet(p3, "order_by", order_by) ELSE p3

\* get_dataset_records: each clause is sent only when truthy.
RecordsParams(select, where, group_by, order_by, limit, offset) ==
    LET p0 == <<[k |-> "limit", v |-> PyInt(limit)], [k |-> "offset", v |-> PyInt(offset)]>>
        p1 == IF Truthy(select) THEN DictSet(p0, "select", select) ELSE p0
        p2 == IF Truthy(where) THEN DictSet(p1, "where", where) ELSE p1
        p3 == IF Truthy(group_by) THEN DictSet(p2, "group_by", group_by) ELSE p2
    IN  IF Truthy(order_by) THEN DictSet(p3, "order_by", order_by) ELSE p3

RecordsRequest(c, dataset_id, select, where, group_by, order_by, limit, offset) ==
    Request(c, "/catalog/datasets/" \o dataset_id \o "/records",
            [t |-> "dict",
             v |-> RecordsParams(select, where, group_by, order_by, limit, offset)])

\* get_dataset_facets
FacetsParams(facet, where) ==
    LET p0 == <<[k |-> "facet", v |-> PyList(facet)]>>
    IN  IF Truthy(where) THEN DictSet(p0, "where", where) ELSE p0

FacetsRequest(c, dataset_id, facet, where) ==
    Request(c, "/catalog/datasets/" \o dataset_id \o "/facets",
            [t |-> "dict", v |-> FacetsParams(facet, where)])

\* (mutant) the query quoted inside search()
SearchRecordsRequest_Quoted(c, dataset_id, query, limit) ==
    Request(c, "/catalog/datasets/" \o dataset_id \o "/records",
            [t |-> "dict",
             v |-> <<[k |-> "limit", v |-> PyInt(limit)], [k |-> "offset", v |-> PyInt(0)],
                     [k |-> "where", v |-> PyStr("search(\"" \o query \o "\")")]>>])

\* search_records: get_dataset_records with where = search(<query>), default offset
DefaultLimit == 10
DefaultOffset == 0
SearchRecordsRequest(c, dataset_id, query, limit) ==
    RecordsRequest(c, dataset_id, NoneV, PyStr("search(" \o query \o ")"), NoneV, NoneV,
                   limit, DefaultOffset)

\* search_datasets: list_datasets with search = query
SearchDatasetsRequest(c, query, limit) ==
    ListDatasetsRequest(c, PyStr(query), NoneV, NoneV, NoneV, limit, DefaultOffset)

(***************************************************************************)
(* How an invocation ends.                                                 *)
(***************************************************************************)
Running == [kind |-> "none"]
Returned(lines) == [kind |-> "text", text |-> lines]     \* "\n".join(lines)
ReturnedValue(v) == [kind |-> "value", value |-> v]
Raised(e) == [kind |-> "raised", exc |-> e]

\* The state after construction of the client (main.py), no tool invoked yet.
BaseUrls ==
    {<<"https://ods.example">>, <<"https://ods.example", "/">>,
     <<"https://ods.example", "/", "/">>}
ApiKeys == {NoneV, PyStr(""), PyStr("K")}
DefaultClient == NewClient(<<"https://ods.example">>, NoneV)

Idle ==
    /\ tool = "idle"
    /\ args = EmptyDoc
    /\ pc = "idle"
    /\ loc = EmptyDoc
    /\ reqs = <<>>
    /\ resps = <<>>
    /\ ret = Running

\* No second invocation.
NoFrame == [tool |-> "none"]

Init ==
    /\ client = DefaultClient
    /\ Idle
    /\ parked = NoFrame

\* One upstream request: _make_request sends req and comes back with r.
Upstream(req, r) ==
    /\ reqs' = Append(reqs, req)
    /\ resps' = Append(resps, r)
    /\ parked' = parked

\* The end of an invocation with result r.
Finish(r) ==
    /\ pc' = "done"
    /\ ret' = r

(***************************************************************************)
(* Text helpers                                                            *)
(***************************************************************************)
\* A str whose characters matter (it is searched, replaced or cut): the
\* sequence of its characters.
PyChars(cs) == [t |-> "chars", v |-> cs]

\* str.replace(pat, rep): every occurrence of pat, left to right, non-overlapping.
\* An occurrence starts at i when s reads pat there and no occurrence that
\* started earlier covers i.
Replace(s, pat, rep) ==
    LET n == Len(s)
        m == Len(pat)
        ReadsAt(i) == i + m - 1 <= n /\ SubSeq(s, i, i + m - 1) = pat
        starts[i \in 1..n] ==
            /\ ReadsAt(i)
            /\ \A j \in (i - m + 1)..(i - 1) : (j >= 1 /\ ReadsAt(j)) => ~starts[j]
        parts == [i \in 1..n |->
                    IF starts[i] THEN rep
                    ELSE IF \E j \in (i - m + 1)..(i - 1) : j >= 1 /\ starts[j] THEN <<>>
                    ELSE <<s[i]>>]
    IN  IF m = 0 THEN s ELSE Flatten(parts)

\* str(x) / f"{x}" of the values that occur in the reports.
PyToStr(x) ==
    CASE x.t = "none" -> "None"
      [] x.t = "str" -> x.v
      [] x.t = "chars" -> Concat(x.v)
      [] x.t = "int" -> ToString(x.v)
      [] x.t = "float" -> FloatRepr(x.v)
      [] OTHER -> "?"

\* `not results or "results" not in results or not results["results"]`
NoResults(doc, key) == doc = EmptyDoc \/ ~Has(doc, key) \/ doc[key] = <<>>

\* x.get("metas", {}).get("default", {})
MetasDefault(doc) == Get(Get(doc, "metas", EmptyDoc), "default", EmptyDoc)

(***************************************************************************)
(* catalog_tools                                                           *)
(***************************************************************************)
DescLimit == 300
DescKeep == 297
NoDescription == <<"N", "o", " ", "d", "e", "s", "c", "r", "i", "p", "t", "i", "o", "n", " ", "a", "v", "a", "i", "l", "a", "b", "l", "e", ".">>
Ellipsis == <<".", ".", ".">>

\* "Clean up description - remove HTML tags"
CleanDescription(cs) ==
    Replace(Replace(Replace(cs, <<"<", "p", ">">>, <<>>),
                    <<"<", "/", "p", ">">>, <<" ">>),
            <<"<", "b", "r", ">">>, <<" ">>)

\* "Truncate long descriptions"
TruncateDescription(cs) ==
    IF Len(cs) > DescLimit THEN SubSeq(cs, 1, DescKeep) \o Ellipsis ELSE cs

\* search_datasets: the three lines of entry i
SearchEntryLines(i, dataset) ==
    LET m == MetasDefault(dataset)
        dataset_id == Get(dataset, "dataset_id", PyStr("N/A"))
        title == Get(m, "title", PyStr("Untitled Dataset"))
        publisher == Get(m, "publisher", PyStr("Unknown Publisher"))
        description == Get(m, "description", PyChars(NoDescription))
        shown == TruncateDescription(CleanDescription(description.v))
    IN  << "\n" \o ToString(i) \o ". " \o PyToStr(title)
               \o " (ID: " \o PyToStr(dataset_id) \o ")",
           "   Publisher: " \o PyToStr(publisher),
           "   Description: " \o Concat(shown) >>

\* search_datasets after its one request: the report of a decoded response
SearchDatasetsReport(query, results) ==
    IF NoResults(results, "results")
    THEN Returned(<<"No datasets found matching your query.">>)
    ELSE LET total_count == Get(results, "total_count", PyInt(0))
             datasets == results["results"]
         IN  Returned(
               <<"Found " \o PyToStr(total_count) \o " datasets matching '" \o query
                   \o "'. Here are the first " \o ToString(Len(datasets)) \o " results:">>
               \o Flatten([i \in DOMAIN datasets |-> SearchEntryLines(i, datasets[i])]))

\* search_datasets: the request is awaited outside any try, so its failure
\* propagates to the caller.
SearchDatasetsOutcome(query, r) ==
    IF r.ok THEN SearchDatasetsReport(query, r.doc) ELSE Raised(r.exc)

\* list_datasets_by_publisher: `.get("theme", [""])[0]` raises IndexError on an
\* empty list.
ThemeOf(m) ==
    LET themes == Get(m, "theme", PyList(<<PyStr("")>>))
    IN  IF themes.v = <<>> THEN [ok |-> FALSE, exc |-> "IndexError"]
        ELSE [ok |-> TRUE, v |-> themes.v[1]]

\* list_datasets_by_publisher: the two lines of entry i
PublisherEntryLines(i, dataset) ==
    LET m == MetasDefault(dataset)
        dataset_id == Get(dataset, "dataset_id", PyStr("N/A"))
        title == Get(m, "title", PyStr("Untitled Dataset"))
        records_count == Get(m, "records_count", PyStr("Unknown"))
        theme == ThemeOf(m).v
        theme_info == IF Truthy(theme) THEN " | Theme: " \o PyToStr(theme) ELSE ""
    IN  << "\n" \o ToString(i) \o ". " \o PyToStr(title)
               \o " (ID: " \o PyToStr(dataset_id) \o ")",
           "   Records: " \o PyToStr(records_count) \o theme_info >>

PublisherReport(publisher, results) ==
    IF NoResults(results, "results")
    THEN Returned(<<"No datasets found from publisher: " \o publisher \o ".">>)
    ELSE LET total_count == Get(results, "total_count", PyInt(0))
             datasets == results["results"]
         IN  IF \E i \in DOMAIN datasets : ~ThemeOf(MetasDefault(datasets[i])).ok
             THEN Raised("IndexError")
             ELSE Returned(
                    <<"Found " \o PyToStr(total_count) \o " datasets from publisher '"
                        \o publisher \o "'. Here are the first "
                        \o ToString(Len(datasets)) \o " results:">>
                    \o Flatten([i \in DOMAIN datasets |->
                                   PublisherEntryLines(i, datasets[i])]))

\* list_datasets_by_publisher: no try around the request either.
PublisherOutcome(publisher, r) ==
    IF r.ok THEN PublisherReport(publisher, r.doc) ELSE Raised(r.exc)

\* get_dataset_info: the line of one field
InfoFieldLine(field) ==
    LET name == Get(field, "name", PyStr("Unnamed"))
        label == Get(field, "label", name)
        field_type == Get(field, "type", PyStr("Unknown"))
        field_desc == Get(field, "description", PyStr(""))
    IN  "  - " \o PyToStr(label) \o " (" \o PyToStr(name) \o "): " \o PyToStr(field_type)
          \o (IF Truthy(field_desc) THEN " - " \o PyToStr(field_desc) ELSE "")

\* get_dataset_info after its one request
DatasetInfoOutcome(dataset_id, r) ==
    IF ~r.ok THEN Returned(<<"Error retrieving dataset: " \o r.exc>>)
    ELSE IF r.doc = EmptyDoc
    THEN Returned(<<"Dataset with ID '" \o dataset_id \o "' not found.">>)
    ELSE LET metas == MetasDefault(r.doc)
             title == Get(metas, "title", PyStr("Untitled Dataset"))
             publisher == Get(metas, "publisher", PyStr("Unknown Publisher"))
             description == Get(metas, "description", PyChars(NoDescription))
             records_count == Get(metas, "records_count", PyStr("Unknown"))
             fields == Get(r.doc, "fields", <<>>)
         IN  Returned(
               <<"Dataset: " \o PyToStr(title) \o " (ID: " \o dataset_id \o ")",
                 "Publisher: " \o PyToStr(publisher),
                 "Record Count: " \o PyToStr(records_count),
                 "\nDescription:",
                 Concat(CleanDescription(description.v)),
                 "\nFields (" \o ToString(Len(fields)) \o "):">>
               \o [i \in DOMAIN fields |-> InfoFieldLine(fields[i])])

\* list_dataset_fields: ", ".join(f"{k}: {v}" for k, v in annotations.items())
AnnotationText(annotations) ==
    JoinStr([i \in DOMAIN annotations |->
               annotations[i].k \o ": " \o PyToStr(annotations[i].v)], ", ")

\* list_dataset_fields: the lines of field i
ListedFieldLines(i, field) ==
    LET name == Get(field, "name", PyStr("Unnamed"))
        label == Get(field, "label", name)
        field_type == Get(field, "type", PyStr("Unknown"))
        description == Get(field, "description", PyStr("No description available"))
        annotations == Get(field, "annotations", <<>>)
    IN  <<"\n" \o ToString(i) \o ". " \o PyToStr(label) \o " (" \o PyToStr(name) \o ")",
          "   Type: " \o PyToStr(field_type),
          "   Description: " \o PyToStr(description)>>
        \o (IF annotations # <<>>
            THEN <<"   Annotations: " \o AnnotationText(annotations)>>
            ELSE <<>>)

\* (mutant) a response without fields reported as a missing dataset
DatasetFieldsOutcome_NotFound(dataset_id, r) ==
    IF ~r.ok THEN Returned(<<"Error retrieving dataset: " \o r.exc>>)
    ELSE IF r.doc = EmptyDoc \/ Get(r.doc, "fields", <<>>) = <<>>
    THEN Returned(<<"Dataset with ID '" \o dataset_id \o "' not found.">>)
    ELSE Returned(
           <<"Fields for dataset: "
               \o PyToStr(Get(MetasDefault(r.doc), "title", PyStr("Untitled Dataset")))
               \o " (ID: " \o dataset_id \o ")">>
           \o Flatten([i \in DOMAIN r.doc["fields"] |->
                         ListedFieldLines(i, r.doc["fields"][i])]))

\* list_dataset_fields after its one request
DatasetFieldsOutcome(dataset_id, r) ==
    IF ~r.ok THEN Returned(<<"Error retrieving dataset: " \o r.exc>>)
    ELSE IF r.doc = EmptyDoc
    THEN Returned(<<"Dataset with ID '" \o dataset_id \o "' not found.">>)
    ELSE IF Get(r.doc, "fields", <<>>) = <<>>
    THEN Returned(<<"No fields found for dataset '" \o dataset_id \o "'.">>)
    ELSE Returned(
           <<"Fields for dataset: "
               \o PyToStr(Get(MetasDefault(r.doc), "title", PyStr("Untitled Dataset")))
               \o " (ID: " \o dataset_id \o ")">>
           \o Flatten([i \in DOMAIN r.doc["fields"] |->
                         ListedFieldLines(i, r.doc["fields"][i])]))

\* Catalog listing responses.
EntryFull ==
    [dataset_id |-> PyStr("ds1"),
     metas |-> [default |->
        [title |-> PyStr("Air"), publisher |-> PyStr("City"),
         description |-> PyChars(<<"<", "p", ">", "a", "<", "b", "r", ">", "b", "<", "/", "p", ">">>),
         records_count |-> PyInt(5), theme |-> PyList(<<PyStr("Env")>>)]]]
EntryNoTheme ==
    [dataset_id |-> PyStr("ds2"),
     metas |-> [default |-> [title |-> PyStr("Water"), records_count |-> PyInt(0)]]]
EntryEmptyTheme ==
    [dataset_id |-> PyStr("ds3"),
     metas |-> [default |-> [title |-> PyStr("Soil"), theme |-> PyList(<<>>)]]]
EntryLong ==
    [metas |-> [default |-> [description |-> PyChars([i \in 1..(DescLimit + 1) |-> "x"])]]]
Entries == {EntryFull, EntryNoTheme, EntryEmptyTheme, EmptyDoc}

MaxEntries == 2
EntryLists == UNION {[1..n -> Entries] : n \in 0..MaxEntries}
ListingDocs ==
    {EmptyDoc, [total_count |-> PyInt(3)], [results |-> <<EntryLong>>]}
    \cup {[results |-> es, total_count |-> PyInt(Len(es))] : es \in EntryLists}
    \cup {[results |-> es] : es \in EntryLists}
Responses(docs) == {Failure(e) : e \in Errors} \cup {Success(d) : d \in docs}

Queries == {"demand", "a) OR (b"}
Publishers == {"City"}
Limits == {DefaultLimit, 3}

\* Tool search_datasets(query, limit)
SearchDatasets ==
    /\ pc = "idle"
    /\ \E query \in Queries, limit \in Limits, r \in Responses(ListingDocs) :
         /\ tool' = "search_datasets"
         /\ args' = [query |-> query, limit |-> limit]
         /\ Upstream(SearchDatasetsRequest(client, query, limit), r)
         /\ Finish(SearchDatasetsOutcome(query, r))
    /\ UNCHANGED <<client, loc>>

\* Tool list_datasets_by_publisher(publisher, limit)
ListDatasetsByPublisher ==
    /\ pc = "idle"
    /\ \E publisher \in Publishers, limit \in Limits, r \in Responses(ListingDocs) :
         /\ tool' = "list_datasets_by_publisher"
         /\ args' = [publisher |-> publisher, limit |-> limit]
         /\ Upstream(ListDatasetsRequest(client, NoneV, PyStr(publisher),
                                         NoneV, NoneV, limit, DefaultOffset), r)
         /\ Finish(PublisherOutcome(publisher, r))
    /\ UNCHANGED <<client, loc>>

\* Dataset lookup responses: metadata and fields, with keys left out.
CatalogIds == {"ds"}
FieldDescribed ==
    [name |-> PyStr("price"), label |-> PyStr("Price"), type |-> PyStr("double"),
     description |-> PyStr("Unit price"),
     annotations |-> <<[k |-> "unit", v |-> PyStr("EUR")], [k |-> "decimals", v |-> PyInt(2)]>>]
FieldBare == [name |-> PyStr("qty")]
FieldNoAnnotations ==
    [label |-> PyStr("Day"), type |-> PyStr("date"), description |-> PyStr(""),
     annotations |-> <<>>]
DatasetFields == {FieldDescribed, FieldBare, FieldNoAnnotations, EmptyDoc}
MaxFields == 2
DatasetFieldLists == UNION {[1..n -> DatasetFields] : n \in 0..MaxFields}
DatasetMetas ==
    {[default |-> [title |-> PyStr("Air"), publisher |-> PyStr("City"),
                   description |-> PyChars(<<"<", "p", ">", "a", "<", "b", "r", ">", "b", "<", "/", "p", ">">>),
                   records_count |-> PyInt(5)]],
     [default |-> [publisher |-> PyStr("City")]],
     [default |-> EmptyDoc],
     EmptyDoc}
DatasetDocs ==
    {EmptyDoc}
    \cup {[metas |-> m] : m \in DatasetMetas}
    \cup {[fields |-> fs] : fs \in DatasetFieldLists}
    \cup {[metas |-> m, fields |-> fs] : m \in DatasetMetas, fs \in DatasetFieldLists}

\* Tool get_dataset_info(dataset_id)
GetDatasetInfo ==
    /\ pc = "idle"
    /\ \E dataset_id \in CatalogIds, r \in Responses(DatasetDocs) :
         /\ tool' = "get_dataset_info"
         /\ args' = [dataset_id |-> dataset_id]
         /\ Upstream(GetDatasetRequest(client, dataset_id), r)
         /\ Finish(DatasetInfoOutcome(dataset_id, r))
    /\ UNCHANGED <<client, loc>>

\* Tool list_dataset_fields(dataset_id)
ListDatasetFields ==
    /\ pc = "idle"
    /\ \E dataset_id \in CatalogIds, r \in Responses(DatasetDocs) :
         /\ tool' = "list_dataset_fields"
         /\ args' = [dataset_id |-> dataset_id]
         /\ Upstream(GetDatasetRequest(client, dataset_id), r)
         /\ Finish(DatasetFieldsOutcome(dataset_id, r))
    /\ UNCHANGED <<client, loc>>

NextCatalog ==
    \/ SearchDatasets \/ ListDatasetsByPublisher
    \/ GetDatasetInfo \/ ListDatasetFields
SpecCatalog == Init /\ [][NextCatalog]_vars

(***************************************************************************)
(* Direct calls of the client's methods                                    *)
(***************************************************************************)
OptStr(s) == {NoneV, PyStr(""), PyStr(s)}
Offsets == {DefaultOffset, 20}

InitClient ==
    /\ client \in {NewClient(b, k) : b \in BaseUrls, k \in ApiKeys}
    /\ Idle
    /\ parked = NoFrame

\* OdsApiClient.list_datasets(search, publisher, theme, where, limit, offset)
ApiListDatasets ==
    /\ pc = "idle"
    /\ \E search \in OptStr("q"), publisher \in OptStr("P"), theme \in OptStr("T"),
          where \in OptStr("w>1"), limit \in Limits, offset \in Offsets,
          r \in Responses({EmptyDoc}) :
         /\ tool' = "OdsApiClient.list_datasets"
         /\ args' = [search |-> search, publisher |-> publisher, theme |-> theme,
                     where |-> where, limit |-> limit, offset |-> offset]
         /\ Upstream(ListDatasetsRequest(client, search, publisher, theme,
                                         where, limit, offset), r)
         /\ Finish(IF r.ok THEN ReturnedValue(r.doc) ELSE Raised(r.exc))
    /\ UNCHANGED <<client, loc>>

\* OdsApiClient.get_dataset(dataset_id)
ApiGetDataset ==
    /\ pc = "idle"
    /\ \E dataset_id \in {"ds", "a/b"}, r \in Responses({EmptyDoc}) :
         /\ tool' = "OdsApiClient.get_dataset"
         /\ args' = [dataset_id |-> dataset_id]
         /\ Upstream(GetDatasetRequest(client, dataset_id), r)
         /\ Finish(IF r.ok THEN ReturnedValue(r.doc) ELSE Raised(r.exc))
    /\ UNCHANGED <<client, loc>>

\* OdsApiClient.get_dataset_records(dataset_id, select, where, group_by,
\* order_by, limit, offset)
ApiGetDatasetRecords ==
    /\ pc = "idle"
    /\ \E select \in OptStr("a, b"), where \in OptStr("a > 1"), group_by \in OptStr("a"),
          order_by \in OptStr("a desc"), limit \in Limits, offset \in Offsets,
          r \in Responses({EmptyDoc}) :
         /\ tool' = "OdsApiClient.get_dataset_records"
         /\ args' = [dataset_id |-> "ds", select |-> select, where |-> where,
                     group_by |-> group_by, order_by |-> order_by,
                     limit |-> limit, offset |-> offset]
         /\ Upstream(RecordsRequest(client, "ds", select, where, group_by, order_by,
                                    limit, offset), r)
         /\ Finish(IF r.ok THEN ReturnedValue(r.doc) ELSE Raised(r.exc))
    /\ UNCHANGED <<client, loc>>

\* OdsApiClient.get_dataset_facets(dataset_id, facet, where)
ApiGetDatasetFacets ==
    /\ pc = "idle"
    /\ \E facet \in {<<PyStr("city")>>, <<PyStr("city"), PyStr("kind")>>},
          where \in OptStr("a > 1"), r \in Responses({EmptyDoc}) :
         /\ tool' = "OdsApiClient.get_dataset_facets"
         /\ args' = [dataset_id |-> "ds", facet |-> facet, where |-> where]
         /\ Upstream(FacetsRequest(client, "ds", facet, where), r)
         /\ Finish(IF r.ok THEN ReturnedValue(r.doc) ELSE Raised(r.exc))
    /\ UNCHANGED <<client, loc>>

\* OdsApiClient.search_datasets(query, limit)
ApiSearchDatasets ==
    /\ pc = "idle"
    /\ \E query \in {"demand", "a) OR (b"}, limit \in Limits, r \in Responses({EmptyDoc}) :
         /\ tool' = "OdsApiClient.search_datasets"
         /\ args' = [query |-> query, limit |-> limit]
         /\ Upstream(SearchDatasetsRequest(client, query, limit), r)
         /\ Finish(IF r.ok THEN ReturnedValue(r.doc) ELSE Raised(r.exc))
    /\ UNCHANGED <<client, loc>>

\* OdsApiClient.search_records(dataset_id, query, limit)
ApiSearchRecords ==
    /\ pc = "idle"
    /\ \E query \in {"demand", "a) OR (b", ""}, limit \in Limits,
          r \in Responses({EmptyDoc}) :
         /\ tool' = "OdsApiClient.search_records"
         /\ args' = [dataset_id |-> "ds", query |-> query, limit |-> limit]
         /\ Upstream(SearchRecordsRequest(client, "ds", query, limit), r)
         /\ Finish(IF r.ok THEN ReturnedValue(r.doc) ELSE Raised(r.exc))
    /\ UNCHANGED <<client, loc>>

\* urllib.parse.quote_plus of one character (or of a run of unreserved ones)
QuotePiece(piece) ==
    CASE piece = " " -> "+"
      [] piece = "," -> "%2C"
      [] piece = ">" -> "%3E"
      [] piece = "<" -> "%3C"
      [] piece = "=" -> "%3D"
      [] piece = "(" -> "%28"
      [] piece = ")" -> "%29"
      [] piece = "*" -> "%2A"
      [] piece = "\"" -> "%22"
      [] piece = "'" -> "%27"
      [] piece = "&" -> "%26"
      [] piece = "/" -> "%2F"
      [] piece = "+" -> "%2B"
      [] piece = "%" -> "%25"
      [] OTHER -> piece
QuotePlus(x) ==
    IF x.t = "chars" THEN Concat([i \in DOMAIN x.v |-> QuotePiece(x.v[i])])
    ELSE PyToStr(x)

\* urllib.parse.urlencode(params)
UrlEncode(params) ==
    JoinStr([i \in DOMAIN params |-> params[i].k \o "=" \o QuotePlus(params[i].v)], "&")

\* (mutant) the limit left out when it is 0
ExportParams_TruthyLimit(select, where, group_by, order_by, limit) ==
    (IF Truthy(select) THEN <<[k |-> "select", v |-> select]>> ELSE <<>>)
    \o (IF Truthy(where) THEN <<[k |-> "where", v |-> where]>> ELSE <<>>)
    \o (IF Truthy(group_by) THEN <<[k |-> "group_by", v |-> group_by]>> ELSE <<>>)
    \o (IF Truthy(order_by) THEN <<[k |-> "order_by", v |-> order_by]>> ELSE <<>>)
    \o (IF Truthy(limit) THEN <<[k |-> "limit", v |-> limit]>> ELSE <<>>)

\* export_records: the query parameters, in insertion order
ExportParams(select, where, group_by, order_by, limit) ==
    (IF Truthy(select) THEN <<[k |-> "select", v |-> select]>> ELSE <<>>)
    \o (IF Truthy(where) THEN <<[k |-> "where", v |-> where]>> ELSE <<>>)
    \o (IF Truthy(group_by) THEN <<[k |-> "group_by", v |-> group_by]>> ELSE <<>>)
    \o (IF Truthy(order_by) THEN <<[k |-> "order_by", v |-> order_by]>> ELSE <<>>)
    \o (IF limit # NoneV THEN <<[k |-> "limit", v |-> limit]>> ELSE <<>>)

\* export_records: the URL, not requested
ExportUrl(c, a) ==
    c.base_url \o c.api_path \o "/catalog/datasets/" \o a.dataset_id \o "/exports/"
      \o a.export_format \o "?"
      \o UrlEncode(ExportParams(a.select, a.where, a.group_by, a.order_by, a.limit))

ExportArgs ==
    [dataset_id : {"ds"}, export_format : {"csv", "geojson"},
     select : {NoneV, PyChars(<<>>), PyChars(<<"a", ",", " ", "b">>)},
     where : {NoneV, PyChars(<<"a", " ", ">", " ", "1">>)},
     group_by : {NoneV, PyChars(<<"a">>)},
     order_by : {NoneV, PyChars(<<"a", " ", "desc">>)},
     limit : {NoneV, PyInt(0), PyInt(50)}]

\* OdsApiClient.export_records(dataset_id, export_format, select, where,
\* group_by, order_by, limit)
ApiExportRecords ==
    /\ pc = "idle"
    /\ \E a \in ExportArgs :
         /\ tool' = "OdsApiClient.export_records"
         /\ args' = a
         /\ Finish(ReturnedValue(PyStr(ExportUrl(client, a))))
    /\ UNCHANGED <<client, loc, reqs, resps, parked>>

NextClient ==
    \/ ApiListDatasets \/ ApiGetDataset \/ ApiGetDatasetRecords
    \/ ApiGetDatasetFacets \/ ApiSearchDatasets \/ ApiSearchRecords
    \/ ApiExportRecords
SpecClient == InitClient /\ [][NextClient]_vars

(***************************************************************************)
(* query_tools                                                             *)
(***************************************************************************)
\* A record of a dataset: an ordered mapping, as its sequence of key/value pairs.
RecordKeys(record) == [i \in DOMAIN record |-> record[i].k]

\* json.dumps(value, ensure_ascii=False) of a list of scalars
JsonScalar(x) ==
    CASE x.t = "none" -> "null"
      [] x.t = "str" -> "\"" \o x.v \o "\""
      [] x.t = "int" -> ToString(x.v)
      [] OTHER -> "?"
JsonDumps(x) == "[" \o JoinStr([i \in DOMAIN x.v |-> JsonScalar(x.v[i])], ", ") \o "]"

\* "Format the value for display": nested values are serialised, the others
\* go through str().
DisplayValue(x) == IF x.t \in {"list", "dict"} THEN JsonDumps(x) ELSE PyToStr(x)

\* The title lookup that follows a successful primary lookup:
\*     try: dataset_info = await api_client.get_dataset(dataset_id)
\*          dataset_title = dataset_info.get("metas", {}).get("default", {}).get("title", ...)
\*     except: dataset_title = "Unknown Dataset"
\* (a null "metas" makes .get raise AttributeError, caught by the bare except).
UnknownDataset == PyStr("Unknown Dataset")

\* (mutant) the except branch reports the failure in place of the placeholder
TitleLookup_NoPlaceholder(r) ==
    IF ~r.ok THEN PyStr(r.exc)
    ELSE Get(Get(Get(r.doc, "metas", EmptyDoc), "default", EmptyDoc), "title",
             UnknownDataset)

TitleLookup(r) ==
    IF ~r.ok THEN UnknownDataset
    ELSE LET metas == Get(r.doc, "metas", EmptyDoc)
         IN  IF metas = NoneV THEN UnknownDataset
             ELSE Get(Get(metas, "default", EmptyDoc), "title", UnknownDataset)

\* (mutant) the failure of the primary lookup is not caught
PrimaryFailed_Uncaught(prefix, r) == Raised(r.exc)

\* `except Exception as e: return f"Error ...: {str(e)}"` around a primary lookup
PrimaryFailed(prefix, r) == Returned(<<prefix \o r.exc>>)

\* The per-record key/value listing: "Record i:" and one line per key.
RecordListing(records) ==
    Flatten([i \in DOMAIN records |->
        <<"\nRecord " \o ToString(i) \o ":">>
        \o [j \in DOMAIN records[i] |->
              "  " \o records[i][j].k \o ": " \o DisplayValue(records[i][j].v)]])

\* record.get(key, "") then the display formatting: one cell of a table row
Cell(record, key) ==
    IF DictHas(record, key) THEN DisplayValue(DictGet(record, key)) ELSE ""

\* (mutant) a row made of the record's own values, whatever the columns
RowCells_OwnKeys(record, record_keys) == [j \in DOMAIN record |-> DisplayValue(record[j].v)]

\* The cells of the row of `record` under the columns record_keys
RowCells(record, record_keys) == [j \in DOMAIN record_keys |-> Cell(record, record_keys[j])]

TableLine(cells) == "| " \o JoinStr(cells, " | ") \o " |"

\* The markdown table: header row, separator row, one row per record; the
\* columns are the keys of the first record.
RecordTable(records) ==
    LET record_keys == RecordKeys(records[1])
    IN  <<"\n" \o TableLine(record_keys),
          TableLine([j \in DOMAIN record_keys |-> "---"])>>
        \o [i \in DOMAIN records |-> TableLine(RowCells(records[i], record_keys))]

\* get_dataset_records: "If there are too many fields, summarize the first few
\* records differently"
WideLimit == 10

\* (mutant) the table whatever the number of fields
RecordsBody_AlwaysTable(records) == RecordTable(records)

RecordsBody(records) ==
    LET record_keys == RecordKeys(records[1])
    IN  IF Len(record_keys) > WideLimit
        THEN <<"\nFound " \o ToString(Len(record_keys))
                 \o " fields in the records. Here's a summary of the first "
                 \o ToString(Len(records)) \o " records:">>
             \o RecordListing(records)
        ELSE RecordTable(records)

\* get_dataset_records: "Add a note about ODSQL syntax if any parameters were used"
OdsqlNote(a) ==
    IF Truthy(a.select) \/ Truthy(a.where) \/ Truthy(a.order_by)
    THEN <<"\nNote: This query used ODSQL syntax:">>
         \o (IF Truthy(a.select) THEN <<"- SELECT: " \o a.select.v>> ELSE <<>>)
         \o (IF Truthy(a.where) THEN <<"- WHERE: " \o a.where.v>> ELSE <<>>)
         \o (IF Truthy(a.order_by) THEN <<"- ORDER BY: " \o a.order_by.v>> ELSE <<>>)
    ELSE <<>>

\* get_dataset_records: the report, given the primary response and the title.
\* (`if not records` after the header cannot be taken: an empty result list
\* has already returned "No records found ...".)
RecordsReport(a, results, dataset_title) ==
    LET records == results["results"]
        total_count == Get(results, "total_count", PyInt(0))
    IN  Returned(
          <<"Records from dataset: " \o PyToStr(dataset_title)
              \o " (ID: " \o a.dataset_id \o ")",
            "Showing " \o ToString(Len(records)) \o " of " \o PyToStr(total_count)
              \o " total records (offset: " \o ToString(a.offset) \o ")">>
          \o RecordsBody(records)
          \o OdsqlNote(a))

\* get_dataset_aggregates: the report; the results are always laid out as a table.
AggregatesReport(a, results, dataset_title) ==
    LET records == results["results"]
    IN  Returned(
          <<"Aggregation results for dataset: " \o PyToStr(dataset_title)
              \o " (ID: " \o a.dataset_id \o ")",
            "Query: SELECT " \o a.select.v
              \o (IF Truthy(a.group_by) THEN " GROUP BY " \o a.group_by.v ELSE "")
              \o (IF Truthy(a.where) THEN " WHERE " \o a.where.v ELSE ""),
            "Results: " \o ToString(Len(records)) \o " rows">>
          \o RecordTable(records))

\* search_dataset_records: the report; the records are always listed one by one.
SearchRecordsReport(a, results, dataset_title) ==
    LET records == results["results"]
        total_count == Get(results, "total_count", PyInt(0))
    IN  Returned(
          <<"Search results for '" \o a.query \o "' in dataset: "
              \o PyToStr(dataset_title) \o " (ID: " \o a.dataset_id \o ")",
            "Found " \o PyToStr(total_count) \o " matching records. Showing first "
              \o ToString(Len(records)) \o ":">>
          \o RecordListing(records))

\* facet_analysis: sorted(facet_values, key=count (0 when missing), reverse=True);
\* values of equal count keep their order.
CountOf(value) == Get(value, "count", PyInt(0)).v

InsertByCountDesc(sorted, x) ==
    LET before == {i \in DOMAIN sorted : CountOf(sorted[i]) >= CountOf(x)}
        n == Cardinality({i \in DOMAIN sorted : \A j \in 1..i : j \in before})
    IN  SubSeq(sorted, 1, n) \o <<x>> \o SubSeq(sorted, n + 1, Len(sorted))

RECURSIVE SortByCountDescFrom(_, _, _)
SortByCountDescFrom(values, i, sorted) ==
    IF i > Len(values) THEN sorted
    ELSE SortByCountDescFrom(values, i + 1, InsertByCountDesc(sorted, values[i]))

\* (mutant) the values left in the order of the response
SortByCountDesc_Unsorted(values) == values

SortByCountDesc(values) == SortByCountDescFrom(values, 1, <<>>)

\* facet_analysis: "Limit to top 20 values"
TopValues == 20

\* (mutant) the note already at 20 values
FacetNote_AtLimit(sorted_values) ==
    IF Len(sorted_values) >= TopValues
    THEN <<"\n(Showing top " \o ToString(TopValues) \o " of "
             \o ToString(Len(sorted_values)) \o " values)">>
    ELSE <<>>

\* facet_analysis: the note under a facet cut to its top values
FacetNote(sorted_values) ==
    IF Len(sorted_values) > TopValues
    THEN <<"\n(Showing top " \o ToString(TopValues) \o " of "
             \o ToString(Len(sorted_values)) \o " values)">>
    ELSE <<>>

\* facet_analysis: the lines of one facet
FacetLines(facet_data) ==
    LET facet_name == Get(facet_data, "name", PyStr("Unknown"))
        facet_values == Get(facet_data, "facets", <<>>)
        sorted_values == SortByCountDesc(facet_values)
        shown == SubSeq(sorted_values, 1,
                        IF Len(sorted_values) > TopValues THEN TopValues
                        ELSE Len(sorted_values))
    IN  <<"\nFacet: " \o PyToStr(facet_name) \o " ("
            \o ToString(Len(facet_values)) \o " values)">>
        \o (IF facet_values = <<>>
            THEN <<"  No values found for this facet.">>
            ELSE <<"\n| Value | Count | State |", "| --- | --- | --- |">>
                 \o [i \in DOMAIN shown |->
                       "| " \o PyToStr(Get(shown[i], "name", PyStr("N/A")))
                       \o " | " \o PyToStr(Get(shown[i], "count", PyInt(0)))
                       \o " | " \o PyToStr(Get(shown[i], "state", PyStr("N/A"))) \o " |"]
                 \o FacetNote(sorted_values))

\* facet_analysis: the report
FacetReport(a, results, dataset_title) ==
    Returned(
      <<"Facet analysis for dataset: " \o PyToStr(dataset_title)
          \o " (ID: " \o a.dataset_id \o ")",
        "Analyzing facets: " \o JoinStr(a.facets, ", ")
          \o (IF Truthy(a.where) THEN " WHERE " \o a.where.v ELSE "")>>
      \o Flatten([i \in DOMAIN results["facets"] |-> FacetLines(results["facets"][i])]))

\* Sample upstream data for the query tools.
DatasetIds == {"ds"}
Field(key, value) == [k |-> key, v |-> value]
RecAB == <<Field("a", PyInt(1)), Field("b", PyInt(2))>>
RecA == <<Field("a", PyInt(3))>>
RecBA == <<Field("b", PyStr("x")), Field("a", NoneV)>>
RecNested == <<Field("a", PyList(<<PyInt(1), PyStr("y")>>)), Field("c", PyInt(0))>>
RecWide(n) == [i \in 1..n |-> Field("f" \o ToString(i), PyInt(i))]
SampleRecords == {RecAB, RecA, RecBA, RecNested, RecWide(WideLimit), RecWide(WideLimit + 1)}

MaxRecords == 2
RecordLists == UNION {[1..n -> SampleRecords] : n \in 0..MaxRecords}
RecordDocs ==
    {EmptyDoc, [total_count |-> PyInt(0)]}
    \cup {[results |-> rs, total_count |-> PyInt(Len(rs) + 40)] : rs \in RecordLists}
    \cup {[results |-> rs] : rs \in RecordLists}

TitleDocs ==
    {[metas |-> [default |-> [title |-> PyStr("Air Quality")]]],
     [metas |-> [default |-> EmptyDoc]],
     [metas |-> NoneV],
     EmptyDoc}

FacetValue(name, count) ==
    [name |-> PyStr(name), count |-> PyInt(count), state |-> PyStr("displayed")]
FacetCity ==
    [name |-> PyStr("city"),
     facets |-> <<FacetValue("a", 1), FacetValue("b", 3), FacetValue("c", 3)>>]
FacetSparse ==
    [name |-> PyStr("kind"), facets |-> <<[name |-> PyStr("x")], [count |-> PyInt(2)]>>]
FacetNoValues == [name |-> PyStr("zone"), facets |-> <<>>]
FacetMany(n) ==
    [name |-> PyStr("street"),
     facets |-> [i \in 1..n |-> FacetValue("s" \o ToString(i), (i * 7) % 5)]]
SampleFacets ==
    {FacetCity, FacetSparse, FacetNoValues, EmptyDoc,
     FacetMany(TopValues), FacetMany(TopValues + 1)}
MaxFacets == 2
FacetLists == UNION {[1..n -> SampleFacets] : n \in 0..MaxFacets}
FacetDocs == {EmptyDoc} \cup {[facets |-> fs] : fs \in FacetLists}

OptClause(s) == {NoneV, PyStr(s)}
RecordsArgs ==
    [dataset_id : DatasetIds, limit : {DefaultLimit}, offset : Offsets,
     select : OptClause("a, b"), where : OptClause("a > 1"), order_by : OptClause("a")]
AggregatesLimit == 100
AggregatesArgs ==
    [dataset_id : DatasetIds, select : {PyStr("count(*) as n")},
     group_by : OptClause("a"), where : OptClause("a > 1"), limit : {AggregatesLimit}]
FacetArgs ==
    [dataset_id : DatasetIds, facets : {<<"city">>, <<"city", "kind">>},
     where : OptClause("a > 1")]
SearchArgs == [dataset_id : DatasetIds, query : Queries, limit : Limits]

\* The second request of the four tools: the dataset title for the header.
QueryReport(t, a, results, dataset_title) ==
    CASE t = "get_dataset_records" -> RecordsReport(a, results, dataset_title)
      [] t = "get_dataset_aggregates" -> AggregatesReport(a, results, dataset_title)
      [] t = "facet_analysis" -> FacetReport(a, results, dataset_title)
      [] t = "search_dataset_records" -> SearchRecordsReport(a, results, dataset_title)

TitleRequest(t) ==
    /\ tool = t
    /\ pc = "title"
    /\ \E r \in Responses(TitleDocs) :
         /\ Upstream(GetDatasetRequest(client, args.dataset_id), r)
         /\ Finish(QueryReport(t, args, loc.results, TitleLookup(r)))
    /\ UNCHANGED <<client, tool, args, loc>>

\* After the primary response r of a tool: the error line, the "nothing found"
\* line, or on to the title lookup.
AfterPrimary(r, prefix, key, nothing) ==
    IF ~r.ok THEN Finish(PrimaryFailed(prefix, r)) /\ loc' = loc
    ELSE IF NoResults(r.doc, key) THEN Finish(Returned(<<nothing>>)) /\ loc' = loc
    ELSE pc' = "title" /\ loc' = [results |-> r.doc] /\ ret' = ret

\* Tool get_dataset_records(dataset_id, limit, offset, select, where, order_by)
GetDatasetRecords ==
    /\ pc = "idle"
    /\ \E a \in RecordsArgs, r \in Responses(RecordDocs) :
         /\ tool' = "get_dataset_records"
         /\ args' = a
         /\ Upstream(RecordsRequest(client, a.dataset_id, a.select, a.where, NoneV,
                                    a.order_by, a.limit, a.offset), r)
         /\ AfterPrimary(r, "Error retrieving dataset records: ", "results",
                "No records found for dataset '" \o a.dataset_id
                  \o "' with the specified criteria.")
    /\ UNCHANGED client

GetDatasetRecordsTitle == TitleRequest("get_dataset_records")

\* Tool get_dataset_aggregates(dataset_id, select, group_by, where, limit)
GetDatasetAggregates ==
    /\ pc = "idle"
    /\ \E a \in AggregatesArgs, r \in Responses(RecordDocs) :
         /\ tool' = "get_dataset_aggregates"
         /\ args' = a
         /\ Upstream(RecordsRequest(client, a.dataset_id, a.select, a.where, a.group_by,
                                    NoneV, a.limit, DefaultOffset), r)
         /\ AfterPrimary(r, "Error performing aggregation: ", "results",
                "No aggregation results found for dataset '" \o a.dataset_id
                  \o "' with the specified criteria.")
    /\ UNCHANGED client

GetDatasetAggregatesTitle == TitleRequest("get_dataset_aggregates")

\* Tool facet_analysis(dataset_id, facets, where)
FacetAnalysis ==
    /\ pc = "idle"
    /\ \E a \in FacetArgs, r \in Responses(FacetDocs) :
         /\ tool' = "facet_analysis"
         /\ args' = a
         /\ Upstream(FacetsRequest(client, a.dataset_id,
                                   [i \in DOMAIN a.facets |-> PyStr(a.facets[i])],
                                   a.where), r)
         /\ AfterPrimary(r, "Error retrieving facets: ", "facets",
                "No facet data found for dataset '" \o a.dataset_id
                  \o "' with the specified criteria.")
    /\ UNCHANGED client

FacetAnalysisTitle == TitleRequest("facet_analysis")

\* Tool search_dataset_records(dataset_id, query, limit)
SearchDatasetRecords ==
    /\ pc = "idle"
    /\ \E a \in SearchArgs, r \in Responses(RecordDocs) :
         /\ tool' = "search_dataset_records"
         /\ args' = a
         /\ Upstream(SearchRecordsRequest(client, a.dataset_id, a.query, a.limit), r)
         /\ AfterPrimary(r, "Error searching dataset records: ", "results",
                "No records found matching '" \o a.query \o "' in dataset '"
                  \o a.dataset_id \o "'.")
    /\ UNCHANGED client

SearchDatasetRecordsTitle == TitleRequest("search_dataset_records")

NextQuery ==
    \/ GetDatasetRecords \/ GetDatasetRecordsTitle
    \/ GetDatasetAggregates \/ GetDatasetAggregatesTitle
    \/ FacetAnalysis \/ FacetAnalysisTitle
    \/ SearchDatasetRecords \/ SearchDatasetRecordsTitle
SpecQuery == Init /\ [][NextQuery]_vars

\* export_format.upper()
Upper(export_format) ==
    CASE export_format = "csv" -> "CSV"
      [] export_format = "geojson" -> "GEOJSON"
      [] export_format = "json" -> "JSON"
      [] OTHER -> export_format

\* get_export_url: query_params, one entry per truthy argument
ExportQueryParams(a) ==
    (IF Truthy(a.select) THEN <<"SELECT: " \o PyToStr(a.select)>> ELSE <<>>)
    \o (IF Truthy(a.where) THEN <<"WHERE: " \o PyToStr(a.where)>> ELSE <<>>)
    \o (IF Truthy(a.group_by) THEN <<"GROUP BY: " \o PyToStr(a.group_by)>> ELSE <<>>)
    \o (IF Truthy(a.order_by) THEN <<"ORDER BY: " \o PyToStr(a.order_by)>> ELSE <<>>)
    \o (IF Truthy(a.limit) THEN <<"LIMIT: " \o PyToStr(a.limit)>> ELSE <<>>)

\* get_export_url: the report
ExportReport(a, export_url, dataset_title) ==
    LET query_params == ExportQueryParams(a)
    IN  Returned(
          <<"Export URL for dataset: " \o PyToStr(dataset_title) \o " (ID: "
              \o a.dataset_id \o ")",
            "Format: " \o Upper(a.export_format)>>
          \o (IF query_params # <<>>
              THEN <<"Query parameters: " \o JoinStr(query_params, ", ")>>
              ELSE <<>>)
          \o <<"\nExport URL: " \o export_url,
               "\nNote: This URL can be used to download the dataset in the specified format.">>)

\* Tool get_export_url(dataset_id, export_format, select, where, group_by,
\* order_by, limit): export_records builds the URL without a request (and
\* raises nothing for these arguments), then the title lookup, whose failure
\* is caught by the bare except.
GetExportUrl ==
    /\ pc = "idle"
    /\ \E a \in ExportArgs, r \in Responses(TitleDocs) :
         /\ tool' = "get_export_url"
         /\ args' = a
         /\ Upstream(GetDatasetRequest(client, a.dataset_id), r)
         /\ Finish(ExportReport(a, ExportUrl(client, a), TitleLookup(r)))
    /\ UNCHANGED <<client, loc>>

NextExport == GetExportUrl
SpecExport == Init /\ [][NextExport]_vars

(***************************************************************************)
(* analysis_tools: summarize_dataset                                       *)
(***************************************************************************)
SampleLimit == 5

\* (mutant) an absent theme shown as "N/A"
SummaryTheme_Named(metas) ==
    IF Truthy(Get(metas, "theme", NoneV)) THEN metas["theme"].v[1] ELSE PyStr("N/A")

\* (mutant) the theme line tells whether another invocation is in flight
SummaryTheme_Busy(metas) ==
    IF parked # NoFrame THEN PyStr("busy")
    ELSE IF Truthy(Get(metas, "theme", NoneV)) THEN metas["theme"].v[1] ELSE PyStr("")

\* metas.get("theme", [""])[0] if metas.get("theme") else ""
SummaryTheme(metas) ==
    IF Truthy(Get(metas, "theme", NoneV)) THEN metas["theme"].v[1] ELSE PyStr("")

\* summarize_dataset: the schema line of one field
SummaryFieldLine(field) ==
    LET name == Get(field, "name", PyStr("Unnamed"))
        field_type == Get(field, "type", PyStr("Unknown"))
        label == Get(field, "label", name)
    IN  "- **" \o PyToStr(label) \o "** (" \o PyToStr(name) \o "): " \o PyToStr(field_type)

\* field_types[field_type] = field_types.get(field_type, 0) + 1 over the
\* first n fields: a dict in insertion order
RECURSIVE FieldTypeCounts(_, _)
FieldTypeCounts(fields, n) ==
    IF n = 0 THEN <<>>
    ELSE LET d == FieldTypeCounts(fields, n - 1)
             field_type == PyToStr(Get(fields[n], "type", PyStr("Unknown")))
         IN  DictSet(d, field_type,
                     (IF DictHas(d, field_type) THEN DictGet(d, field_type) ELSE 0) + 1)

\* summarize_dataset: "Add sample records if available"
SummarySampleLines(records_count, sample_records) ==
    IF sample_records = <<>> THEN <<>>
    ELSE <<"\n## Sample Records (5 of " \o PyToStr(records_count) \o ")">>
         \o Flatten([i \in DOMAIN sample_records |->
              <<"\n### Record " \o ToString(i)>>
              \o [j \in DOMAIN sample_records[i] |->
                    "- **" \o sample_records[i][j].k \o "**: "
                      \o DisplayValue(sample_records[i][j].v)]])

\* summarize_dataset: "Build summary"
SummaryReport(dataset_id, dataset_info, sample_records) ==
    LET metas == MetasDefault(dataset_info)
        title == Get(metas, "title", PyStr("Untitled Dataset"))
        publisher == Get(metas, "publisher", PyStr("Unknown Publisher"))
        description == Get(metas, "description", PyChars(NoDescription))
        records_count == Get(metas, "records_count", PyStr("Unknown"))
        theme == SummaryTheme(metas)
        license == Get(metas, "license", PyStr("Unknown License"))
        fields == Get(dataset_info, "fields", <<>>)
        field_types == FieldTypeCounts(fields, Len(fields))
    IN  Returned(
          <<"# Dataset Summary: " \o PyToStr(title),
            "\n## Basic Information",
            "- **Dataset ID**: " \o dataset_id,
            "- **Publisher**: " \o PyToStr(publisher),
            "- **Theme**: " \o PyToStr(theme),
            "- **License**: " \o PyToStr(license),
            "- **Records Count**: " \o PyToStr(records_count),
            "\n## Description",
            Concat(CleanDescription(description.v)),
            "\n## Schema (" \o ToString(Len(fields)) \o " fields)">>
          \o [i \in DOMAIN fields |-> SummaryFieldLine(fields[i])]
          \o <<"\n## Field Type Distribution">>
          \o [i \in DOMAIN field_types |->
                "- " \o field_types[i].k \o ": " \o ToString(field_types[i].v) \o " fields"]
          \o SummarySampleLines(records_count, sample_records))

SummaryMetas ==
    {[default |-> [title |-> PyStr("Air"), publisher |-> PyStr("City"),
                   description |-> PyChars(<<"<", "p", ">", "a", "<", "/", "p", ">">>),
                   records_count |-> PyInt(5), theme |-> PyList(<<PyStr("Env")>>),
                   license |-> PyStr("CC0")]],
     [default |-> [title |-> PyStr("Air"), theme |-> PyList(<<PyStr("Env")>>)]],
     [default |-> [license |-> PyStr("CC0"), records_count |-> PyInt(5)]],
     [default |-> [title |-> PyStr("Air"),
                   description |-> PyChars(<<"<", "<", "p", ">", "p", ">", "a", "<", "b", "r", ">">>)]]}
SummaryDocs ==
    DatasetDocs
    \cup {[metas |-> m] : m \in SummaryMetas}
    \cup {[metas |-> m, fields |-> fs] : m \in SummaryMetas, fs \in DatasetFieldLists}
SummarySampleDocs ==
    {EmptyDoc, [results |-> <<>>], [results |-> <<RecA>>],
     [results |-> <<RecNested, RecBA>>]}

\* Tool summarize_dataset(dataset_id): "Get dataset metadata"
SummarizeDataset ==
    /\ pc = "idle"
    /\ \E dataset_id \in CatalogIds, r \in Responses(SummaryDocs) :
         /\ tool' = "summarize_dataset"
         /\ args' = [dataset_id |-> dataset_id]
         /\ Upstream(GetDatasetRequest(client, dataset_id), r)
         /\ IF ~r.ok
            THEN Finish(Returned(<<"Error retrieving dataset information: " \o r.exc>>))
                 /\ loc' = loc
            ELSE IF r.doc = EmptyDoc
            THEN Finish(Returned(<<"Dataset with ID '" \o dataset_id \o "' not found.">>))
                 /\ loc' = loc
            ELSE /\ loc' = [dataset_info |-> r.doc]
                 /\ pc' = "sample"
                 /\ ret' = ret
    /\ UNCHANGED client

\* summarize_dataset: "Get sample records"; a failure leaves the sample empty
SummarizeDatasetSample ==
    /\ tool = "summarize_dataset"
    /\ pc = "sample"
    /\ \E r \in Responses(SummarySampleDocs) :
         LET sample_records == IF r.ok THEN Get(r.doc, "results", <<>>) ELSE <<>>
         IN  /\ Upstream(RecordsRequest(client, args.dataset_id, NoneV, NoneV, NoneV, NoneV,
                                        SampleLimit, DefaultOffset), r)
             /\ Finish(SummaryReport(args.dataset_id, loc.dataset_info, sample_records))
    /\ UNCHANGED <<client, tool, args, loc>>

\* The catalog tools and the summary: the reports of dataset metadata.
NextSummary ==
    \/ NextCatalog
    \/ SummarizeDataset \/ SummarizeDatasetSample
SpecSummary == Init /\ [][NextSummary]_vars

(***************************************************************************)
(* analysis_tools: the field analyses                                      *)
(***************************************************************************)
NumericTypes == {"int", "double", "decimal", "float"}
TextTypes == {"text"}
DateTypes == {"date", "datetime"}

\* (mutant) a field of another name taken when none has the name
FindField_FirstField(fields, field_name) ==
    LET hits == {i \in DOMAIN fields : Get(fields[i], "name", NoneV) = PyStr(field_name)}
    IN  IF fields = <<>> THEN 0
        ELSE IF hits = {} THEN 1
        ELSE CHOOSE i \in hits : \A j \in hits : i <= j

\* "Find the specified field": the index of the first field of that name, 0
\* when there is none.
FindField(fields, field_name) ==
    LET hits == {i \in DOMAIN fields : Get(fields[i], "name", NoneV) = PyStr(field_name)}
    IN  IF hits = {} THEN 0 ELSE CHOOSE i \in hits : \A j \in hits : i <= j

\* (mutant) the type of the field not compared with the class
ValidateField_AnyType(dataset_info, a, types, class) ==
    LET fields == Get(dataset_info, "fields", <<>>)
        i == FindField(fields, a.field_name)
    IN  IF i = 0
        THEN [ok |-> FALSE,
              text |-> "Field '" \o a.field_name \o "' not found in dataset '"
                         \o a.dataset_id \o "'."]
        ELSE [ok |-> TRUE, label |-> Get(fields[i], "label", PyStr(a.field_name))]

\* "First, verify the field exists and is <class>": after a successful schema
\* fetch, either the message the tool returns or the label to go on with.
ValidateField(dataset_info, a, types, class) ==
    LET fields == Get(dataset_info, "fields", <<>>)
        i == FindField(fields, a.field_name)
        field_type == Get(fields[i], "type", PyStr(""))
    IN  IF i = 0
        THEN [ok |-> FALSE,
              text |-> "Field '" \o a.field_name \o "' not found in dataset '"
                         \o a.dataset_id \o "'."]
        ELSE IF field_type.v \notin types
        THEN [ok |-> FALSE,
              text |-> "Field '" \o a.field_name \o "' is not a " \o class
                         \o " field (type: " \o PyToStr(field_type) \o ")."]
        ELSE [ok |-> TRUE, label |-> Get(fields[i], "label", PyStr(a.field_name))]

\* The first request of the three analyses: the schema fetch and the checks.
ValidateStep(a, r, types, class) ==
    IF ~r.ok
    THEN Finish(Returned(<<"Error validating field: " \o r.exc>>)) /\ loc' = loc
    ELSE LET v == ValidateField(r.doc, a, types, class)
         IN  IF ~v.ok THEN Finish(Returned(<<v.text>>)) /\ loc' = loc
             ELSE /\ pc' = "stats"
                  /\ loc' = [dataset_info |-> r.doc, field_label |-> v.label]
                  /\ ret' = ret

\* dataset_info.get("metas", {}).get("default", {}).get("title", "Unknown Dataset")
InfoTitle(dataset_info) == Get(MetasDefault(dataset_info), "title", UnknownDataset)

\* (mutant) every aggregation asks for the total again
AggregateRequest_TotalAgain(c, dataset_id, select, where, group_by, order_by, limit) ==
    RecordsRequest(c, dataset_id, PyStr("count(*) as total"), NoneV, NoneV, NoneV, limit,
                   DefaultOffset)

\* An aggregation over the whole dataset: get_dataset_records with a select
\* clause (and possibly others) and the default limit and offset.
AggregateRequest(c, dataset_id, select, where, group_by, order_by, limit) ==
    RecordsRequest(c, dataset_id, PyStr(select), where, group_by, order_by, limit,
                   DefaultOffset)

\* The first three lines of the three reports
AnalysisHeader(a, l) ==
    <<"# Analysis of " \o PyToStr(l.field_label) \o " (" \o a.field_name \o ")",
      "\nDataset: " \o PyToStr(InfoTitle(l.dataset_info)) \o " (ID: " \o a.dataset_id \o ")",
      "\n## Basic Statistics">>

\* ---- analyze_numeric_field ----
RangeDivisor == 10
BucketCount == 10
LastBucket == 9

\* The float of a JSON number
AsFloat(x) == IF x.t = "int" THEN FloatOf(x.v) ELSE x.v

\* (mutant) a zero width widened to one unit
RangeSize_Widened(min_val, max_val) ==
    IF AsFloat(max_val) = AsFloat(min_val) THEN FloatOf(1)
    ELSE FloatRound(AsFloat(max_val) - AsFloat(min_val), 10)

\* range_size = (max_val - min_val) / 10
RangeSize(min_val, max_val) ==
    FloatDivInt(FloatSub(AsFloat(max_val), AsFloat(min_val)), RangeDivisor)

\* lower = min_val + (i * range_size); upper = min_val + ((i + 1) * range_size)
BucketLower(min_val, range_size, i) ==
    FloatAdd(AsFloat(min_val), FloatMulInt(i, range_size))
BucketUpper(min_val, range_size, i) ==
    FloatAdd(AsFloat(min_val), FloatMulInt(i + 1, range_size))

\* The where clause of bucket i,
\*     f"{field_name} >= {lower} AND {field_name} < {upper}"   (<= when i == 9),
\* kept as its parts: a float's repr reads back as the same float, so the
\* clause compares with exactly lower and upper.
BucketWhere(field_name, min_val, range_size, i) ==
    [t |-> "range", field |-> field_name,
     lower |-> BucketLower(min_val, range_size, i),
     upper |-> BucketUpper(min_val, range_size, i),
     upper_inclusive |-> (i = LastBucket)]

\* Whether a field value v (a float) satisfies a bucket's where clause
InRange(w, v) ==
    /\ v >= w.lower
    /\ IF w.upper_inclusive THEN v <= w.upper ELSE v < w.upper

\* (mutant) the rows collected before a failure are kept
NumericReport_Partial(a, l, distribution) ==
    LET kept == IF distribution = <<>> /\ "distribution" \in DOMAIN l
                THEN l.distribution ELSE distribution
    IN  Returned(
          AnalysisHeader(a, l)
          \o <<"- **Count**: " \o PyToStr(l.count),
               "- **Minimum**: " \o PyToStr(l.min_val),
               "- **Maximum**: " \o PyToStr(l.max_val),
               "- **Average**: " \o PyToStr(l.avg_val)>>
          \o (IF kept # <<>>
              THEN <<"\n## Value Distribution", "| Range | Count |", "| --- | --- |">>
                   \o [i \in DOMAIN kept |->
                         "| " \o Format2f(kept[i].lower) \o " - "
                           \o Format2f(kept[i].upper) \o " | "
                           \o PyToStr(kept[i].count) \o " |"]
              ELSE <<>>))

\* analyze_numeric_field: the report; distribution is the list of
\* (lower, upper, count), empty when there is none (`if distribution:`).
NumericReport(a, l, distribution) ==
    Returned(
      AnalysisHeader(a, l)
      \o <<"- **Count**: " \o PyToStr(l.count),
           "- **Minimum**: " \o PyToStr(l.min_val),
           "- **Maximum**: " \o PyToStr(l.max_val),
           "- **Average**: " \o PyToStr(l.avg_val)>>
      \o (IF distribution # <<>>
          THEN <<"\n## Value Distribution", "| Range | Count |", "| --- | --- |">>
               \o [i \in DOMAIN distribution |->
                     "| " \o Format2f(distribution[i].lower) \o " - "
                       \o Format2f(distribution[i].upper) \o " | "
                       \o PyToStr(distribution[i].count) \o " |"]
          ELSE <<>>))

\* Sample schemas.
SchemaField(name, type) == [name |-> PyStr(name), type |-> PyStr(type)]
SchemaFields ==
    <<SchemaField("price", "double"), SchemaField("qty", "int"),
      [name |-> PyStr("name"), type |-> PyStr("text"), label |-> PyStr("Name")],
      SchemaField("day", "date"), SchemaField("at", "datetime"),
      SchemaField("loc", "geo_point_2d"), [type |-> PyStr("int")],
      [name |-> PyStr("untyped")], SchemaField("qty", "text")>>
SchemaDocs ==
    {[fields |-> SchemaFields, metas |-> [default |-> [title |-> PyStr("Air Quality")]]],
     [fields |-> SchemaFields],
     [fields |-> <<>>],
     EmptyDoc}
FieldNames == {"price", "qty", "name", "day", "at", "loc", "untyped", "missing"}
AnalysisArgs == [dataset_id : DatasetIds, field_name : FieldNames]

\* Sample statistics of a numeric field: 0 <= min <= max.
MaxMin == 2
MaxNumber == 23
NumericStats(lo, hi) ==
    [min |-> PyFloat(FloatOf(lo)), max |-> PyFloat(FloatOf(hi)),
     avg |-> PyFloat(FloatOf(lo)), count |-> PyInt(4)]
NumericStatsDocs ==
    {EmptyDoc, [results |-> <<>>], [results |-> <<EmptyDoc>>],
     [results |-> <<[min |-> NoneV, max |-> NoneV, avg |-> NoneV, count |-> PyInt(0)]>>],
     [results |-> <<[min |-> PyInt(1), max |-> PyInt(21), avg |-> PyFloat(FloatOf(5)),
                     count |-> PyInt(9)]>>]}
    \cup {[results |-> <<NumericStats(lo, hi)>>] : lo \in 0..MaxMin, hi \in 0..MaxNumber}
CountDocs == {[results |-> <<[count |-> PyInt(7)]>>], [results |-> <<>>]}

\* Tool analyze_numeric_field(dataset_id, field_name): the schema fetch
AnalyzeNumericField ==
    /\ pc = "idle"
    /\ \E a \in AnalysisArgs, r \in Responses(SchemaDocs) :
         /\ tool' = "analyze_numeric_field"
         /\ args' = a
         /\ Upstream(GetDatasetRequest(client, a.dataset_id), r)
         /\ ValidateStep(a, r, NumericTypes, "numeric")
    /\ UNCHANGED client

\* analyze_numeric_field: "Get basic statistics using aggregation"
AnalyzeNumericStats ==
    /\ tool = "analyze_numeric_field"
    /\ pc = "stats"
    /\ \E r \in Responses({d \in NumericStatsDocs :
                             NoResults(d, "results")
                             \/ ~IsNumber(Get(d["results"][1], "min", NoneV))
                             \/ AsFloat(d["results"][1]["min"]) <= AsFloat(d["results"][1]["max"])}) :
         /\ Upstream(AggregateRequest(client, args.dataset_id,
                        "min(" \o args.field_name \o ") as min, max(" \o args.field_name
                          \o ") as max, avg(" \o args.field_name \o ") as avg, count("
                          \o args.field_name \o ") as count",
                        NoneV, NoneV, NoneV, DefaultLimit), r)
         /\ IF ~r.ok
            THEN Finish(Returned(<<"Error computing field statistics: " \o r.exc>>))
                 /\ loc' = loc
            ELSE IF NoResults(r.doc, "results")
            THEN Finish(Returned(<<"Failed to compute statistics for field '"
                                     \o args.field_name \o "'.">>))
                 /\ loc' = loc
            ELSE LET stat_values == r.doc["results"][1]
                     l == [dataset_info |-> loc.dataset_info,
                           field_label |-> loc.field_label,
                           min_val |-> Get(stat_values, "min", PyStr("N/A")),
                           max_val |-> Get(stat_values, "max", PyStr("N/A")),
                           avg_val |-> Get(stat_values, "avg", PyStr("N/A")),
                           count |-> Get(stat_values, "count", PyStr("N/A"))]
                 IN  IF /\ IsNumber(l.min_val) /\ IsNumber(l.max_val)
                        /\ RangeSize(l.min_val, l.max_val) > 0
                     THEN /\ pc' = "bucket"
                          /\ loc' = [dataset_info |-> l.dataset_info,
                                     field_label |-> l.field_label,
                                     min_val |-> l.min_val, max_val |-> l.max_val,
                                     avg_val |-> l.avg_val, count |-> l.count,
                                     range_size |-> RangeSize(l.min_val, l.max_val),
                                     i |-> 0, distribution |-> <<>>]
                          /\ ret' = ret
                     ELSE Finish(NumericReport(args, l, <<>>)) /\ loc' = l
    /\ UNCHANGED <<client, tool, args>>

\* analyze_numeric_field: the count of bucket loc.i.  Any failure in the loop
\* (the request, or [0] on an empty result list) drops the whole distribution.
AnalyzeNumericBucket ==
    /\ tool = "analyze_numeric_field"
    /\ pc = "bucket"
    /\ \E r \in Responses(CountDocs) :
         LET w == BucketWhere(args.field_name, loc.min_val, loc.range_size, loc.i)
             results == Get(r.doc, "results", <<EmptyDoc>>)
             row == [lower |-> w.lower, upper |-> w.upper,
                     count |-> Get(results[1], "count", PyInt(0))]
         IN  /\ Upstream(AggregateRequest(client, args.dataset_id, "count(*) as count",
                                          w, NoneV, NoneV, DefaultLimit), r)
             /\ IF ~r.ok \/ results = <<>>
                THEN Finish(NumericReport(args, loc, <<>>)) /\ loc' = loc
                ELSE IF loc.i + 1 = BucketCount
                THEN /\ Finish(NumericReport(args, loc, Append(loc.distribution, row)))
                     /\ loc' = [loc EXCEPT !.distribution = Append(@, row), !.i = @ + 1]
                ELSE /\ loc' = [loc EXCEPT !.distribution = Append(@, row), !.i = @ + 1]
                     /\ pc' = pc /\ ret' = ret
    /\ UNCHANGED <<client, tool, args>>

\* ---- percentages ----
\* isinstance(x, (int, float)) and x > 0
PositiveNumber(x) == IsNumber(x) /\ x.v > 0

\* f"{(count / total) * 100:.2f}" for numbers count >= 0 and total > 0, by
\* exact division rounded to the nearest hundredth: what the double arithmetic
\* prints except next to a tie, which small counts never produce.
Scaled(x) == IF x.t = "int" THEN x.v * FloatOne ELSE x.v
Percent2f(count, total) ==
    LET n == Scaled(count) * 10000
        d == Scaled(total)
        q == n \div d
        r == n % d
        h == IF 2 * r > d \/ (2 * r = d /\ q % 2 = 1) THEN q + 1 ELSE q
    IN  ToString(h \div 100) \o "." \o (IF h % 100 < 10 THEN "0" ELSE "")
          \o ToString(h % 100)

\* x.get("results", [{}])[0].get(key, default), with `fallback` for what the
\* enclosing bare except assigns (failed request, or [0] on an empty list).
FirstResultGet(r, key, default, fallback) ==
    IF ~r.ok THEN fallback
    ELSE LET results == Get(r.doc, "results", <<EmptyDoc>>)
         IN  IF results = <<>> THEN fallback ELSE Get(results[1], key, default)

\* ---- analyze_text_field ----
DefaultTextLimit == 20

\* "Calculate percentage if total_records is a number"
PercentageCell(count, total_records) ==
    IF PositiveNumber(total_records)
    THEN Percent2f(count, total_records) \o "%"
    ELSE "N/A"

\* The rows of the frequency table; dividing a count that is no number by the
\* total raises TypeError.
TextRowFails(value_info, total_records) ==
    PositiveNumber(total_records) /\ ~IsNumber(Get(value_info, "count", PyInt(0)))
TextRow(field_name, value_info, total_records) ==
    "| " \o PyToStr(Get(value_info, field_name, PyStr("N/A"))) \o " | "
      \o PyToStr(Get(value_info, "count", PyInt(0))) \o " | "
      \o PercentageCell(Get(value_info, "count", PyInt(0)), total_records) \o " |"

TextReport(a, l, distinct_count) ==
    IF \E i \in DOMAIN l.values : TextRowFails(l.values[i], l.total_records)
    THEN Raised("TypeError")
    ELSE Returned(
           AnalysisHeader(a, l)
           \o <<"- **Total Records**: " \o PyToStr(l.total_records),
                "- **Distinct Values**: " \o PyToStr(distinct_count)>>
           \o (IF l.values # <<>>
               THEN <<"\n## Top " \o ToString(Len(l.values)) \o " Values by Frequency",
                      "| Value | Count | Percentage |", "| --- | --- | --- |">>
                    \o [i \in DOMAIN l.values |->
                          TextRow(a.field_name, l.values[i], l.total_records)]
               ELSE <<>>))

TextArgs == [dataset_id : DatasetIds, field_name : FieldNames, limit : {DefaultTextLimit}]
ValueRows ==
    <<[name |-> PyStr("Ann"), count |-> PyInt(3)], [count |-> PyInt(1)],
      [name |-> NoneV], [name |-> PyStr("Bob"), count |-> NoneV]>>
FrequencyDocs ==
    {EmptyDoc, [results |-> <<>>], [results |-> SubSeq(ValueRows, 1, 3)],
     [results |-> ValueRows]}
TotalDocs ==
    {EmptyDoc, [results |-> <<>>], [results |-> <<EmptyDoc>>]}
    \cup {[results |-> <<[total |-> t]>>] :
            t \in {PyInt(0), PyInt(8), PyInt(-1), NoneV, PyStr("8"), PyFloat(FloatOf(3))}}
DistinctDocs == {[results |-> <<[distinct_count |-> PyInt(2)]>>], [results |-> <<>>]}

\* Tool analyze_text_field(dataset_id, field_name, limit): the schema fetch
AnalyzeTextField ==
    /\ pc = "idle"
    /\ \E a \in TextArgs, r \in Responses(SchemaDocs) :
         /\ tool' = "analyze_text_field"
         /\ args' = a
         /\ Upstream(GetDatasetRequest(client, a.dataset_id), r)
         /\ ValidateStep(a, r, TextTypes, "text")
    /\ UNCHANGED client

\* analyze_text_field: "Get value frequency using aggregation"
AnalyzeTextFrequency ==
    /\ tool = "analyze_text_field"
    /\ pc = "stats"
    /\ \E r \in Responses(FrequencyDocs) :
         /\ Upstream(AggregateRequest(client, args.dataset_id,
                        args.field_name \o ", count(*) as count",
                        NoneV, PyStr(args.field_name), PyStr("count DESC"), args.limit), r)
         /\ IF ~r.ok
            THEN Finish(Returned(<<"Error computing value frequency: " \o r.exc>>))
                 /\ loc' = loc
            ELSE IF NoResults(r.doc, "results")
            THEN Finish(Returned(<<"Failed to compute value frequency for field '"
                                     \o args.field_name \o "'.">>))
                 /\ loc' = loc
            ELSE /\ pc' = "total"
                 /\ loc' = [dataset_info |-> loc.dataset_info,
                            field_label |-> loc.field_label,
                            values |-> r.doc["results"]]
                 /\ ret' = ret
    /\ UNCHANGED <<client, tool, args>>

\* analyze_text_field: "Get total records count"
AnalyzeTextTotal ==
    /\ tool = "analyze_text_field"
    /\ pc = "total"
    /\ \E r \in Responses(TotalDocs) :
         /\ Upstream(AggregateRequest(client, args.dataset_id, "count(*) as total",
                                      NoneV, NoneV, NoneV, DefaultLimit), r)
         /\ pc' = "distinct"
         /\ loc' = [dataset_info |-> loc.dataset_info,
                    field_label |-> loc.field_label,
                    values |-> loc.values,
                    total_records |-> FirstResultGet(r, "total", PyInt(0), PyStr("Unknown"))]
    /\ UNCHANGED <<client, tool, args, ret>>

\* analyze_text_field: "Get distinct value count", and the report
AnalyzeTextDistinct ==
    /\ tool = "analyze_text_field"
    /\ pc = "distinct"
    /\ \E r \in Responses(DistinctDocs) :
         /\ Upstream(AggregateRequest(client, args.dataset_id,
                        "count(distinct " \o args.field_name \o ") as distinct_count",
                        NoneV, NoneV, NoneV, DefaultLimit), r)
         /\ Finish(TextReport(args, loc,
                     FirstResultGet(r, "distinct_count", PyStr("Unknown"), PyStr("Unknown"))))
    /\ UNCHANGED <<client, tool, args, loc>>

\* ---- analyze_date_field ----
RecentYearsLimit == 5

\* sorted(xs, reverse=True) for a list of ints (stable: equal elements keep
\* their order)
RECURSIVE InsertDesc(_, _)
InsertDesc(xs, x) ==
    IF xs = <<>> THEN <<x>>
    ELSE IF x.v > Head(xs).v THEN <<x>> \o xs
    ELSE <<Head(xs)>> \o InsertDesc(Tail(xs), x)
RECURSIVE SortedReverse(_)
SortedReverse(xs) ==
    IF xs = <<>> THEN <<>>
    ELSE InsertDesc(SortedReverse(SubSeq(xs, 1, Len(xs) - 1)), xs[Len(xs)])

\* [item.get("year") for item in years_data]
YearsOf(years_data) == [i \in DOMAIN years_data |-> Get(years_data[i], "year", NoneV)]

\* Sorting fails (TypeError) when a missing year meets another element.
YearSortFails(years_data) ==
    /\ Len(years_data) >= 2
    /\ \E i \in DOMAIN years_data : ~IsNumber(YearsOf(years_data)[i])

\* (mutant) the oldest years instead of the most recent ones
RecentYears_Oldest(years_data) ==
    LET ys == YearsOf(years_data)
        sorted == IF Len(ys) <= 1 THEN ys ELSE SortedReverse(ys)
        n == IF Len(sorted) < RecentYearsLimit THEN Len(sorted) ELSE RecentYearsLimit
    IN  [i \in 1..n |-> sorted[Len(sorted) + 1 - i]]

\* recent_years = sorted([...], reverse=True)[:5]
RecentYears(years_data) ==
    LET ys == YearsOf(years_data)
        sorted == IF Len(ys) <= 1 THEN ys ELSE SortedReverse(ys)
    IN  SubSeq(sorted, 1,
               IF Len(sorted) < RecentYearsLimit THEN Len(sorted) ELSE RecentYearsLimit)

MonthNames ==
    <<"January", "February", "March", "April", "May", "June",
      "July", "August", "September", "October", "November", "December">>

\* [...][month_num-1]: an index from -12 to 11 names a month (a negative one
\* counts from the end), any other index raises IndexError, and a month number
\* that is no int raises TypeError.
MonthIndexError(month_num) ==
    IF month_num.t # "int" THEN "TypeError"
    ELSE IF month_num.v - 1 < 0 - 12 \/ month_num.v - 1 > 11 THEN "IndexError"
    ELSE ""
MonthName(month_num) == MonthNames[((month_num.v - 1 + 12) % 12) + 1]

MonthRow(month_info) ==
    "| " \o MonthName(Get(month_info, "month", PyInt(0))) \o " | "
      \o PyToStr(Get(month_info, "count", PyInt(0))) \o " |"

\* The month sections of the report: month_data is a list of (year, months)
MonthSection(entry) ==
    <<"\n### " \o PyToStr(entry.year), "| Month | Count |", "| --- | --- |">>
    \o [j \in DOMAIN entry.months |-> MonthRow(entry.months[j])]

\* The exceptions building the month rows raises, in row order
MonthErrors(month_data) ==
    Flatten([i \in DOMAIN month_data |->
               [j \in DOMAIN month_data[i].months |->
                  MonthIndexError(Get(month_data[i].months[j], "month", PyInt(0)))]])

DateReport(a, l, years_data, month_data) ==
    LET errs == SelectSeq(MonthErrors(month_data), LAMBDA e : e # "")
    IN  IF errs # <<>> THEN Raised(errs[1])
        ELSE Returned(
               AnalysisHeader(a, l)
               \o <<"- **Count**: " \o PyToStr(l.count),
                    "- **Earliest Date**: " \o PyToStr(l.min_date),
                    "- **Latest Date**: " \o PyToStr(l.max_date)>>
               \o (IF years_data # <<>>
                   THEN <<"\n## Distribution by Year", "| Year | Count |", "| --- | --- |">>
                        \o [i \in DOMAIN years_data |->
                              "| " \o PyToStr(Get(years_data[i], "year", PyStr("N/A")))
                                \o " | " \o PyToStr(Get(years_data[i], "count", PyInt(0)))
                                \o " |"]
                   ELSE <<>>)
               \o (IF month_data # <<>>
                   THEN <<"\n## Monthly Distribution (Last " \o ToString(Len(month_data))
                            \o " Years)">>
                        \o Flatten([i \in DOMAIN month_data |-> MonthSection(month_data[i])])
                   ELSE <<>>))

\* Sample responses of the date analysis
DateStatsDocs ==
    {EmptyDoc, [results |-> <<>>], [results |-> <<EmptyDoc>>],
     [results |-> <<[min_date |-> PyStr("2018-01-01"), max_date |-> PyStr("2023-06-30"),
                     count |-> PyInt(12)]>>]}
MaxYears == 6
YearRow(y) == [year |-> PyInt(y), count |-> PyInt(3)]
\* n years, not in order
YearRows(n) == [i \in 1..n |-> YearRow(2018 + ((i * 5 + 2) % n))]
YearDocs ==
    {EmptyDoc, [results |-> <<>>], [results |-> <<[count |-> PyInt(1)]>>],
     [results |-> <<YearRow(2018), [count |-> PyInt(1)]>>],
     [results |-> YearRows(2)], [results |-> YearRows(MaxYears)]}
MonthRowOf(m) == [month |-> PyInt(m), count |-> PyInt(2)]
MonthDocs ==
    {[results |-> <<>>], [results |-> <<MonthRowOf(3)>>],
     [results |-> <<[count |-> PyInt(1)]>>], [results |-> <<MonthRowOf(13)>>]}

\* Tool analyze_date_field(dataset_id, field_name): the schema fetch
AnalyzeDateField ==
    /\ pc = "idle"
    /\ \E a \in AnalysisArgs, r \in Responses(SchemaDocs) :
         /\ tool' = "analyze_date_field"
         /\ args' = a
         /\ Upstream(GetDatasetRequest(client, a.dataset_id), r)
         /\ ValidateStep(a, r, DateTypes, "date")
    /\ UNCHANGED client

\* analyze_date_field: "Get basic statistics using aggregation"
AnalyzeDateStats ==
    /\ tool = "analyze_date_field"
    /\ pc = "stats"
    /\ \E r \in Responses(DateStatsDocs) :
         /\ Upstream(AggregateRequest(client, args.dataset_id,
                        "min(" \o args.field_name \o ") as min_date, max(" \o args.field_name
                          \o ") as max_date, count(" \o args.field_name \o ") as count",
                        NoneV, NoneV, NoneV, DefaultLimit), r)
         /\ IF ~r.ok
            THEN Finish(Returned(<<"Error computing field statistics: " \o r.exc>>))
                 /\ loc' = loc
            ELSE IF NoResults(r.doc, "results")
            THEN Finish(Returned(<<"Failed to compute statistics for field '"
                                     \o args.field_name \o "'.">>))
                 /\ loc' = loc
            ELSE /\ pc' = "years"
                 /\ loc' = [dataset_info |-> loc.dataset_info,
                            field_label |-> loc.field_label,
                            min_date |-> Get(r.doc["results"][1], "min_date", PyStr("N/A")),
                            max_date |-> Get(r.doc["results"][1], "max_date", PyStr("N/A")),
                            count |-> Get(r.doc["results"][1], "count", PyStr("N/A"))]
                 /\ ret' = ret
    /\ UNCHANGED <<client, tool, args>>

\* analyze_date_field: "Get distribution by year", then the choice of the
\* years to look into
AnalyzeDateYears ==
    /\ tool = "analyze_date_field"
    /\ pc = "years"
    /\ \E r \in Responses(YearDocs) :
         LET years_data == IF r.ok THEN Get(r.doc, "results", <<>>) ELSE <<>>
             l == [dataset_info |-> loc.dataset_info, field_label |-> loc.field_label,
                   min_date |-> loc.min_date, max_date |-> loc.max_date,
                   count |-> loc.count, years_data |-> years_data,
                   recent_years |-> IF years_data = <<>> \/ YearSortFails(years_data)
                                    THEN <<>> ELSE RecentYears(years_data),
                   year |-> 1, month_data |-> <<>>]
         IN  /\ Upstream(AggregateRequest(client, args.dataset_id,
                            "year(" \o args.field_name \o ") as year, count(*) as count",
                            NoneV, PyStr("year(" \o args.field_name \o ")"), PyStr("year"),
                            DefaultLimit), r)
             /\ loc' = l
             /\ IF l.recent_years = <<>>
                THEN Finish(DateReport(args, l, years_data, <<>>))
                ELSE pc' = "months" /\ ret' = ret
    /\ UNCHANGED <<client, tool, args>>

\* analyze_date_field: the month distribution of year loc.recent_years[loc.year];
\* a failure ends the loop and keeps the years already collected.
AnalyzeDateMonths ==
    /\ tool = "analyze_date_field"
    /\ pc = "months"
    /\ \E r \in Responses(MonthDocs) :
         LET year == loc.recent_years[loc.year]
             months == Get(r.doc, "results", <<>>)
             month_data == IF r.ok /\ months # <<>>
                           THEN Append(loc.month_data, [year |-> year, months |-> months])
                           ELSE loc.month_data
         IN  /\ Upstream(AggregateRequest(client, args.dataset_id,
                            "month(" \o args.field_name \o ") as month, count(*) as count",
                            PyStr("year(" \o args.field_name \o ") = " \o PyToStr(year)),
                            PyStr("month(" \o args.field_name \o ")"), PyStr("month"),
                            DefaultLimit), r)
             /\ loc' = [loc EXCEPT !.month_data = month_data, !.year = @ + 1]
             /\ IF ~r.ok \/ loc.year = Len(loc.recent_years)
                THEN Finish(DateReport(args, loc, loc.years_data, month_data))
                ELSE pc' = pc /\ ret' = ret
    /\ UNCHANGED <<client, tool, args>>

NextAnalysis ==
    \/ AnalyzeNumericField \/ AnalyzeNumericStats \/ AnalyzeNumericBucket
    \/ AnalyzeTextField \/ AnalyzeTextFrequency \/ AnalyzeTextTotal \/ AnalyzeTextDistinct
    \/ AnalyzeDateField \/ AnalyzeDateStats \/ AnalyzeDateYears \/ AnalyzeDateMonths
SpecAnalysis == Init /\ [][NextAnalysis]_vars

(***************************************************************************)
(* analysis_tools: generate_dataset_statistics                             *)
(***************************************************************************)
GeoTypes == {"geo_point_2d", "geo_shape"}

\* (field_name, field_label, field_type) of a schema field
FieldTriple(field) ==
    [name |-> Get(field, "name", PyStr("")),
     label |-> Get(field, "label", Get(field, "name", PyStr(""))),
     type |-> Get(field, "type", PyStr(""))]

\* "Group fields by type"
GroupName(field_type) ==
    IF field_type.v \in NumericTypes THEN "numeric"
    ELSE IF field_type.v \in TextTypes THEN "text"
    ELSE IF field_type.v \in DateTypes THEN "date"
    ELSE IF field_type.v \in GeoTypes THEN "geo"
    ELSE "other"
FieldGroup(fields, g) ==
    SelectSeq([i \in DOMAIN fields |-> FieldTriple(fields[i])],
              LAMBDA f : GroupName(f.type) = g)
FieldGroups(fields) ==
    [numeric |-> FieldGroup(fields, "numeric"), text |-> FieldGroup(fields, "text"),
     date |-> FieldGroup(fields, "date"), geo |-> FieldGroup(fields, "geo"),
     other |-> FieldGroup(fields, "other")]

\* f"{field_label} ({field_name})"
FieldCell(f) == PyToStr(f.label) \o " (" \o PyToStr(f.name) \o ")"

StatisticsHeader(dataset_id, dataset_info, groups) ==
    <<"# Dataset Statistics: " \o PyToStr(InfoTitle(dataset_info)),
      "\nDataset ID: " \o dataset_id,
      "\n## Field Count by Type",
      "- **Numeric Fields**: " \o ToString(Len(groups.numeric)),
      "- **Text Fields**: " \o ToString(Len(groups.text)),
      "- **Date Fields**: " \o ToString(Len(groups.date)),
      "- **Geographic Fields**: " \o ToString(Len(groups.geo)),
      "- **Other Fields**: " \o ToString(Len(groups.other)),
      "\n## Detailed Field Information">>

\* "Calculate fill rate"
FillRate(field_count, total_records) ==
    IF IsNumber(field_count) /\ PositiveNumber(total_records)
    THEN Percent2f(field_count, total_records) \o "%"
    ELSE "N/A"

\* A local variable that was never assigned
Unbound == [t |-> "unbound"]

\* Where the code stands after a stretch without await: at the await `pc`
\* (or "done") with locals `loc` and result `ret`.
StepResult(p, l, r) == [pc |-> p, loc |-> l, ret |-> r]
Goto(x) == pc' = x.pc /\ loc' = x.loc /\ ret' = x.ret

\* "Other Fields", and the return
EnterOther(l) ==
    StepResult("done", l,
      Returned(l.output
        \o (IF l.groups.other # <<>>
            THEN <<"\n### Other Fields", "| Field | Type |", "| --- | --- |">>
                 \o [i \in DOMAIN l.groups.other |->
                       "| " \o FieldCell(l.groups.other[i]) \o " | "
                         \o PyToStr(l.groups.other[i].type) \o " |"]
            ELSE <<>>)))

\* "Geographic Fields", up to its first request.  Reading total_records when
\* no earlier section assigned it raises UnboundLocalError.
EnterGeo(l) ==
    LET l1 == [l EXCEPT !.idx = 1,
                 !.output = @ \o <<"\n### Geographic Fields", "| Field | Type | Fill Rate |",
                                   "| --- | --- | --- |">>]
    IN  IF l.groups.geo = <<>> THEN EnterOther(l)
        ELSE IF l.total_records = Unbound
        THEN StepResult("done", l1, Raised("UnboundLocalError"))
        ELSE IF ~IsNumber(l.total_records) THEN StepResult("geo_total", l1, Running)
        ELSE StepResult("geo_field", l1, Running)

\* "Date Fields", up to its first request; total_records is read as above.
EnterDate(l) ==
    LET l1 == [l EXCEPT !.idx = 1,
                 !.output = @ \o <<"\n### Date Fields",
                                   "| Field | Earliest Date | Latest Date | Fill Rate |",
                                   "| --- | --- | --- | --- |">>]
    IN  IF l.groups.date = <<>> THEN EnterGeo(l)
        ELSE IF l.total_records = Unbound
        THEN StepResult("done", l1, Raised("UnboundLocalError"))
        ELSE IF ~IsNumber(l.total_records) THEN StepResult("date_total", l1, Running)
        ELSE StepResult("date_field", l1, Running)

\* "Text Fields", up to the request of the total
EnterText(l) ==
    IF l.groups.text = <<>> THEN EnterDate(l)
    ELSE StepResult("text_total",
           [l EXCEPT !.idx = 1,
              !.output = @ \o <<"\n### Text Fields", "| Field | Distinct Values | Fill Rate |",
                                "| --- | --- | --- |">>],
           Running)

\* "Numeric Fields", up to the request of the statistics
EnterNumeric(l) ==
    IF l.groups.numeric = <<>> THEN EnterText(l)
    ELSE StepResult("numeric", [l EXCEPT !.output = @ \o <<"\n### Numeric Fields">>], Running)

\* The select clauses of the numeric statistics, four per field
NumericSelect(numeric) ==
    JoinStr(Flatten([i \in DOMAIN numeric |->
              <<"min(" \o PyToStr(numeric[i].name) \o ") as min_" \o PyToStr(numeric[i].name),
                "max(" \o PyToStr(numeric[i].name) \o ") as max_" \o PyToStr(numeric[i].name),
                "avg(" \o PyToStr(numeric[i].name) \o ") as avg_" \o PyToStr(numeric[i].name),
                "count(" \o PyToStr(numeric[i].name) \o ") as count_"
                  \o PyToStr(numeric[i].name)>>]), ", ")

\* stats.get("results", [{}])[0] if stats and "results" in stats else {},
\* and {} from the bare except
StatValues(r) ==
    IF ~r.ok \/ r.doc = EmptyDoc \/ ~Has(r.doc, "results") \/ r.doc["results"] = <<>>
    THEN EmptyDoc
    ELSE r.doc["results"][1]

NumericRow(f, stat_values) ==
    "| " \o FieldCell(f) \o " | " \o PyToStr(f.type) \o " | "
      \o PyToStr(Get(stat_values, "count_" \o PyToStr(f.name), PyStr("N/A"))) \o " | "
      \o PyToStr(Get(stat_values, "min_" \o PyToStr(f.name), PyStr("N/A"))) \o " | "
      \o PyToStr(Get(stat_values, "max_" \o PyToStr(f.name), PyStr("N/A"))) \o " | "
      \o PyToStr(Get(stat_values, "avg_" \o PyToStr(f.name), PyStr("N/A"))) \o " |"

\* The total of the dataset as the three sections fetch it
FetchedTotal(r) == FirstResultGet(r, "total", PyInt(0), PyInt(0))
TotalRequest(c, dataset_id) ==
    AggregateRequest(c, dataset_id, "count(*) as total", NoneV, NoneV, NoneV, DefaultLimit)

\* The row of one field and its fill rate: what the try computes, or the
\* "N/A" cells of its bare except.
TextFieldRow(f, r, total_records) ==
    "| " \o FieldCell(f) \o " | "
      \o PyToStr(FirstResultGet(r, "distinct_count", PyStr("N/A"), PyStr("N/A"))) \o " | "
      \o FillRate(FirstResultGet(r, "count", PyInt(0), NoneV), total_records) \o " |"
DateFieldRow(f, r, total_records) ==
    "| " \o FieldCell(f) \o " | "
      \o PyToStr(FirstResultGet(r, "min_date", PyStr("N/A"), PyStr("N/A"))) \o " | "
      \o PyToStr(FirstResultGet(r, "max_date", PyStr("N/A"), PyStr("N/A"))) \o " | "
      \o FillRate(FirstResultGet(r, "count", PyInt(0), NoneV), total_records) \o " |"
GeoFieldRow(f, r, total_records) ==
    "| " \o FieldCell(f) \o " | " \o PyToStr(f.type) \o " | "
      \o FillRate(FirstResultGet(r, "count", PyInt(0), NoneV), total_records) \o " |"

\* The locals after the row of a field: the row in the output, and in
\* fill_rates the total the fill rate was computed against and the cell.
WithRow(l, row, r) ==
    [l EXCEPT !.output = Append(@, row),
              !.idx = @ + 1,
              !.fill_rates = Append(@, [total |-> l.total_records,
                                        cell |-> FillRate(FirstResultGet(r, "count", PyInt(0), NoneV),
                                                          l.total_records)])]

\* Sample schemas of every mix of field types
StatsFieldLists ==
    {<<SchemaField("price", "double"), [name |-> PyStr("qty"), type |-> PyStr("int"),
                                        label |-> PyStr("Quantity")],
       SchemaField("name", "text"), SchemaField("day", "date"),
       SchemaField("loc", "geo_point_2d"), [name |-> PyStr("untyped")]>>,
     <<SchemaField("name", "text"), SchemaField("city", "text")>>,
     <<SchemaField("name", "text"), SchemaField("area", "geo_shape")>>,
     <<SchemaField("price", "double")>>,
     <<SchemaField("day", "date"), SchemaField("at", "datetime")>>,
     <<SchemaField("price", "double"), SchemaField("loc", "geo_point_2d")>>,
     <<SchemaField("blob", "file"), [type |-> PyStr("text")]>>}
StatsSchemaDocs ==
    {EmptyDoc, [fields |-> <<>>], [metas |-> [default |-> EmptyDoc]]}
    \cup {[fields |-> fs] : fs \in StatsFieldLists}
StatsNumericDocs ==
    {EmptyDoc, [results |-> <<>>],
     [results |-> <<[min_price |-> PyInt(1), max_price |-> PyInt(9),
                     avg_price |-> PyFloat(FloatOf(4)), count_price |-> PyInt(8)]>>]}
StatsTotalDocs ==
    {[results |-> <<>>]}
    \cup {[results |-> <<[total |-> t]>>] : t \in {PyInt(0), PyInt(8), PyStr("8")}}
StatsTextDocs ==
    {[results |-> <<>>],
     [results |-> <<[distinct_count |-> PyInt(2), count |-> PyInt(6)]>>],
     [results |-> <<[distinct_count |-> PyInt(2), count |-> NoneV]>>]}
StatsDateDocs ==
    {EmptyDoc,
     [results |-> <<[min_date |-> PyStr("2018-01-01"), max_date |-> PyStr("2023-06-30"),
                     count |-> PyInt(4)]>>]}
StatsGeoDocs == {[results |-> <<>>], [results |-> <<[count |-> PyInt(8)]>>]}

\* Tool generate_dataset_statistics(dataset_id): the dataset fetch, the
\* grouping and the head of the report
GenerateDatasetStatistics ==
    /\ pc = "idle"
    /\ \E dataset_id \in DatasetIds, r \in Responses(StatsSchemaDocs) :
         /\ tool' = "generate_dataset_statistics"
         /\ args' = [dataset_id |-> dataset_id]
         /\ Upstream(GetDatasetRequest(client, dataset_id), r)
         /\ IF ~r.ok
            THEN Finish(Returned(<<"Error retrieving dataset information: " \o r.exc>>))
                 /\ loc' = loc
            ELSE IF r.doc = EmptyDoc
            THEN Finish(Returned(<<"Dataset with ID '" \o dataset_id \o "' not found.">>))
                 /\ loc' = loc
            ELSE IF Get(r.doc, "fields", <<>>) = <<>>
            THEN Finish(Returned(<<"No fields found for dataset '" \o dataset_id \o "'.">>))
                 /\ loc' = loc
            ELSE LET groups == FieldGroups(r.doc["fields"])
                 IN  Goto(EnterNumeric(
                       [groups |-> groups,
                        output |-> StatisticsHeader(dataset_id, r.doc, groups),
                        total_records |-> Unbound,
                        idx |-> 1,
                        fill_rates |-> <<>>]))
    /\ UNCHANGED client

\* generate_dataset_statistics: "Get basic stats for all numeric fields at once"
StatisticsNumeric ==
    /\ tool = "generate_dataset_statistics"
    /\ pc = "numeric"
    /\ \E r \in Responses(StatsNumericDocs) :
         /\ Upstream(AggregateRequest(client, args.dataset_id,
                        NumericSelect(loc.groups.numeric), NoneV, NoneV, NoneV,
                        DefaultLimit), r)
         /\ Goto(EnterText(
              [loc EXCEPT !.output =
                 @ \o <<"| Field | Type | Count | Min | Max | Average |",
                        "| --- | --- | --- | --- | --- | --- |">>
                   \o [i \in DOMAIN loc.groups.numeric |->
                         NumericRow(loc.groups.numeric[i], StatValues(r))]]))
    /\ UNCHANGED <<client, tool, args>>

\* generate_dataset_statistics: the total record count of the text section
StatisticsTextTotal ==
    /\ tool = "generate_dataset_statistics"
    /\ pc = "text_total"
    /\ \E r \in Responses(StatsTotalDocs) :
         /\ Upstream(TotalRequest(client, args.dataset_id), r)
         /\ loc' = [loc EXCEPT !.total_records = FetchedTotal(r)]
    /\ pc' = "text_field"
    /\ UNCHANGED <<client, tool, args, ret>>

\* generate_dataset_statistics: the row of text field loc.idx
StatisticsTextField ==
    /\ tool = "generate_dataset_statistics"
    /\ pc = "text_field"
    /\ \E r \in Responses(StatsTextDocs) :
         LET f == loc.groups.text[loc.idx]
             l == WithRow(loc, TextFieldRow(f, r, loc.total_records), r)
         IN  /\ Upstream(AggregateRequest(client, args.dataset_id,
                            "count(distinct " \o PyToStr(f.name) \o ") as distinct_count, count("
                              \o PyToStr(f.name) \o ") as count",
                            NoneV, NoneV, NoneV, DefaultLimit), r)
             /\ IF loc.idx < Len(loc.groups.text)
                THEN pc' = pc /\ loc' = l /\ ret' = ret
                ELSE Goto(EnterDate(l))
    /\ UNCHANGED <<client, tool, args>>

\* generate_dataset_statistics: the total record count of the date section,
\* fetched when total_records holds no number
StatisticsDateTotal ==
    /\ tool = "generate_dataset_statistics"
    /\ pc = "date_total"
    /\ \E r \in Responses(StatsTotalDocs) :
         /\ Upstream(TotalRequest(client, args.dataset_id), r)
         /\ loc' = [loc EXCEPT !.total_records = FetchedTotal(r)]
    /\ pc' = "date_field"
    /\ UNCHANGED <<client, tool, args, ret>>

\* generate_dataset_statistics: the row of date field loc.idx
StatisticsDateField ==
    /\ tool = "generate_dataset_statistics"
    /\ pc = "date_field"
    /\ \E r \in Responses(StatsDateDocs) :
         LET f == loc.groups.date[loc.idx]
             l == WithRow(loc, DateFieldRow(f, r, loc.total_records), r)
         IN  /\ Upstream(AggregateRequest(client, args.dataset_id,
                            "min(" \o PyToStr(f.name) \o ") as min_date, max("
                              \o PyToStr(f.name) \o ") as max_date, count("
                              \o PyToStr(f.name) \o ") as count",
                            NoneV, NoneV, NoneV, DefaultLimit), r)
             /\ IF loc.idx < Len(loc.groups.date)
                THEN pc' = pc /\ loc' = l /\ ret' = ret
                ELSE Goto(EnterGeo(l))
    /\ UNCHANGED <<client, tool, args>>

\* generate_dataset_statistics: the total record count of the geographic section
StatisticsGeoTotal ==
    /\ tool = "generate_dataset_statistics"
    /\ pc = "geo_total"
    /\ \E r \in Responses(StatsTotalDocs) :
         /\ Upstream(TotalRequest(client, args.dataset_id), r)
         /\ loc' = [loc EXCEPT !.total_records = FetchedTotal(r)]
    /\ pc' = "geo_field"
    /\ UNCHANGED <<client, tool, args, ret>>

\* generate_dataset_statistics: the row of geographic field loc.idx
StatisticsGeoField ==
    /\ tool = "generate_dataset_statistics"
    /\ pc = "geo_field"
    /\ \E r \in Responses(StatsGeoDocs) :
         LET f == loc.groups.geo[loc.idx]
             l == WithRow(loc, GeoFieldRow(f, r, loc.total_records), r)
         IN  /\ Upstream(AggregateRequest(client, args.dataset_id,
                            "count(" \o PyToStr(f.name) \o ") as count",
                            NoneV, NoneV, NoneV, DefaultLimit), r)
             /\ IF loc.idx < Len(loc.groups.geo)
                THEN pc' = pc /\ loc' = l /\ ret' = ret
                ELSE Goto(EnterOther(l))
    /\ UNCHANGED <<client, tool, args>>

NextStats ==
    \/ GenerateDatasetStatistics \/ StatisticsNumeric
    \/ StatisticsTextTotal \/ StatisticsTextField
    \/ StatisticsDateTotal \/ StatisticsDateField
    \/ StatisticsGeoTotal \/ StatisticsGeoField
SpecStats == Init /\ [][NextStats]_vars

(***************************************************************************)
(* Two invocations on one event loop.  A coroutine gives up the loop only  *)
(* at `await client.get(...)` (ods_api.py), so the other invocation runs   *)
(* between two actions of this one and never inside an action.             *)
(***************************************************************************)
CurrentFrame ==
    [tool |-> tool, args |-> args, pc |-> pc, loc |-> loc,
     reqs |-> reqs, resps |-> resps, ret |-> ret]
IdleFrame ==
    [tool |-> "idle", args |-> EmptyDoc, pc |-> "idle", loc |-> EmptyDoc,
     reqs |-> <<>>, resps |-> <<>>, ret |-> Running]

\* (mutant) one result slot for both invocations
Resume_SharedResult(f) ==
    /\ tool' = f.tool /\ args' = f.args /\ pc' = f.pc /\ loc' = f.loc
    /\ reqs' = f.reqs /\ resps' = f.resps /\ ret' = ret

\* The loop resumes the coroutine whose frame is f: its own arguments,
\* position, locals and result.
Resume(f) ==
    /\ tool' = f.tool /\ args' = f.args /\ pc' = f.pc /\ loc' = f.loc
    /\ reqs' = f.reqs /\ resps' = f.resps /\ ret' = f.ret

\* The responses after which the other invocation is given the loop (every
\* response is a suspension point; these are the ones explored).
SwitchResponses(t) ==
    IF t = "generate_dataset_statistics"
    THEN {Success([fields |-> <<SchemaField("price", "double")>>]),
          Success([results |-> <<[min_price |-> PyInt(1), max_price |-> PyInt(9),
                                  avg_price |-> PyFloat(FloatOf(4)),
                                  count_price |-> PyInt(8)]>>])}
    ELSE {Failure("HTTP 500"),
          Success([metas |-> [default |-> [publisher |-> PyStr("City")]],
                   fields |-> <<FieldBare>>]),
          Success([results |-> <<RecA>>])}

\* The running invocation is suspended (or has ended) and the other one, a
\* new one if there is none yet, gets the loop.
SwitchInvocation ==
    /\ pc # "idle"
    /\ \A i \in DOMAIN resps : resps[i] \in SwitchResponses(tool)
    /\ parked' = CurrentFrame
    /\ Resume(IF parked = NoFrame THEN IdleFrame ELSE parked)
    /\ UNCHANGED client

NextConcurrent ==
    \/ SummarizeDataset \/ SummarizeDatasetSample
    \/ NextStats
    \/ SwitchInvocation
SpecConcurrent == Init /\ [][NextConcurrent]_vars

(***************************************************************************)
(* Properties                                                              *)
(***************************************************************************)
Done == pc = "done"
SomeRequestFailed == \E i \in DOMAIN resps : ~resps[i].ok

\* C1 (as claimed): whenever an upstream request of a tool invocation failed,
\* the invocation ends by returning a text; no exception reaches the caller.
C1_FailureReturnsText == (Done /\ SomeRequestFailed) => ret.kind = "text"

\* The query parameters of the last request issued.
LastParams == reqs[Len(reqs)].params.v

\* C2: list_datasets sends as `where` the present parts in the order quoted
\* search term, where, publisher="...", theme="...", joined by " AND ", and
\* sends no `where` when all four are absent.
C2_Parts ==
    (IF Truthy(args.search) THEN <<"\"" \o args.search.v \o "\"">> ELSE <<>>)
    \o (IF Truthy(args.where) THEN <<args.where.v>> ELSE <<>>)
    \o (IF Truthy(args.publisher) THEN <<"publisher=\"" \o args.publisher.v \o "\"">> ELSE <<>>)
    \o (IF Truthy(args.theme) THEN <<"theme=\"" \o args.theme.v \o "\"">> ELSE <<>>)
C2_WhereOrder ==
    (Done /\ tool = "OdsApiClient.list_datasets") =>
        /\ Len(reqs) = 1
        /\ IF C2_Parts = <<>>
           THEN ~DictHas(LastParams, "where")
           ELSE /\ DictHas(LastParams, "where")
                /\ DictGet(LastParams, "where") = PyStr(JoinStr(C2_Parts, " AND "))
\* C2 witness: a call with all four parts present has been made.
C2_Witness_AllFour ==
    /\ Done /\ tool = "OdsApiClient.list_datasets"
    /\ Len(C2_Parts) = 4
    /\ DictGet(LastParams, "where").v = "\"q\" AND w>1 AND publisher=\"P\" AND theme=\"T\""

QueryTools ==
    {"get_dataset_records", "get_dataset_aggregates", "facet_analysis",
     "search_dataset_records"}
PrimaryFailedFirst == Len(resps) >= 1 /\ ~resps[1].ok
TitleLookupFailed == Len(resps) = 2 /\ resps[1].ok /\ ~resps[2].ok

\* C3: in get_dataset_records, get_dataset_aggregates, facet_analysis and
\* search_dataset_records, a failed primary lookup ends the invocation with
\* exactly the one line "Error ...: <message>" of that operation, and no
\* further upstream request (no title lookup) is ever issued.
C3_ErrorLine ==
    (CASE tool = "get_dataset_records" -> "Error retrieving dataset records: "
       [] tool = "get_dataset_aggregates" -> "Error performing aggregation: "
       [] tool = "facet_analysis" -> "Error retrieving facets: "
       [] tool = "search_dataset_records" -> "Error searching dataset records: ")
    \o resps[1].exc
C3_PrimaryFailureOneLine ==
    (tool \in QueryTools /\ PrimaryFailedFirst) =>
        /\ Done
        /\ ret.kind = "text"
        /\ ret.text = <<C3_ErrorLine>>
        /\ Len(reqs) = 1
\* C3 witness: facet_analysis ended on a failed facets lookup.
C3_Witness_FacetsFailed ==
    /\ tool = "facet_analysis" /\ Done /\ PrimaryFailedFirst
    /\ ret.text = <<"Error retrieving facets: HTTP 500">>

\* C4: when the primary lookup succeeded with results and the title lookup
\* fails, the tool returns the complete report: its first line carries the
\* title "Unknown Dataset", and every other line is what it is when the title
\* lookup succeeds (with whatever title).
C4_Header ==
    CASE tool = "get_dataset_records" -> "Records from dataset: Unknown Dataset (ID: "
      [] tool = "get_dataset_aggregates" ->
            "Aggregation results for dataset: Unknown Dataset (ID: "
      [] tool = "facet_analysis" -> "Facet analysis for dataset: Unknown Dataset (ID: "
      [] tool = "search_dataset_records" ->
            "Search results for '" \o args.query \o "' in dataset: Unknown Dataset (ID: "
C4_ReportWithTitle(title) ==
    CASE tool = "get_dataset_records" -> RecordsReport(args, loc.results, title)
      [] tool = "get_dataset_aggregates" -> AggregatesReport(args, loc.results, title)
      [] tool = "facet_analysis" -> FacetReport(args, loc.results, title)
      [] tool = "search_dataset_records" -> SearchRecordsReport(args, loc.results, title)
C4_TitleFailureKeepsReport ==
    (Done /\ tool \in QueryTools /\ TitleLookupFailed) =>
        /\ ret.kind = "text"
        /\ ret.text[1] = C4_Header \o args.dataset_id \o ")"
        /\ Len(ret.text) >= 3
        /\ Tail(ret.text) = Tail(C4_ReportWithTitle(PyStr("Air Quality")).text)
\* C4 witness: an aggregates report built after a failed title lookup.
C4_Witness_TitleFailed ==
    /\ Done /\ tool = "get_dataset_aggregates" /\ TitleLookupFailed
    /\ ret.kind = "text" /\ Len(ret.text) >= 6

\* The three field analyses, the class of types each accepts and its name in
\* the messages.
AnalysisTools == {"analyze_numeric_field", "analyze_text_field", "analyze_date_field"}
ClassTypes ==
    CASE tool = "analyze_numeric_field" -> {"int", "double", "decimal", "float"}
      [] tool = "analyze_text_field" -> {"text"}
      [] tool = "analyze_date_field" -> {"date", "datetime"}
ClassWord ==
    CASE tool = "analyze_numeric_field" -> "numeric"
      [] tool = "analyze_text_field" -> "text"
      [] tool = "analyze_date_field" -> "date"
\* The schema the first request fetched, and in it the fields of the name asked for
SchemaFetched == Len(resps) >= 1 /\ resps[1].ok
FetchedFields == Get(resps[1].doc, "fields", <<>>)
NamedFields ==
    {i \in DOMAIN FetchedFields :
       Has(FetchedFields[i], "name") /\ FetchedFields[i]["name"] = PyStr(args.field_name)}
NamedField == FetchedFields[CHOOSE i \in NamedFields : \A j \in NamedFields : i <= j]
NamedFieldType == IF Has(NamedField, "type") THEN NamedField["type"].v ELSE ""
IsSchemaFetch(req) ==
    /\ req.url = client.base_url \o client.api_path \o "/catalog/datasets/" \o args.dataset_id
    /\ req.params = NoneV
IsAggregation(req) ==
    /\ req.url = client.base_url \o client.api_path \o "/catalog/datasets/"
                   \o args.dataset_id \o "/records"
    /\ DictHas(req.params.v, "select")

\* C5: in analyze_numeric_field, analyze_text_field and analyze_date_field,
\* when the named field is in the fetched schema with a type outside the
\* tool's class, the tool returns "Field '<name>' is not a <class> field
\* (type: <type>)." and the schema fetch is the only upstream request.
C5_WrongTypeStopsAtSchema ==
    (tool \in AnalysisTools /\ SchemaFetched /\ NamedFields # {}
       /\ NamedFieldType \notin ClassTypes) =>
        /\ Done
        /\ ret = Returned(<<"Field '" \o args.field_name \o "' is not a " \o ClassWord
                              \o " field (type: " \o NamedFieldType \o ").">>)
        /\ Len(reqs) = 1
        /\ IsSchemaFetch(reqs[1])
\* C5 witness: numeric analysis of a geo_point_2d field.
C5_Witness_GeoAsNumeric ==
    /\ tool = "analyze_numeric_field" /\ Done /\ SchemaFetched
    /\ NamedFields # {} /\ NamedFieldType = "geo_point_2d"
    /\ ret = Returned(<<"Field 'loc' is not a numeric field (type: geo_point_2d).">>)

\* C6: in every invocation of the three field analyses the schema fetch is
\* the first upstream request, every later request is an aggregation and is
\* issued only after the fetch returned a schema with the named field, and
\* when the field is absent the tool returns "Field '<name>' not found in
\* dataset '<id>'." with no aggregation request.
C6_SchemaFirst ==
    (tool \in AnalysisTools) =>
        /\ Len(reqs) >= 1 /\ IsSchemaFetch(reqs[1])
        /\ \A i \in 2..Len(reqs) : IsAggregation(reqs[i])
        /\ Len(reqs) >= 2 => (SchemaFetched /\ NamedFields # {})
        /\ (SchemaFetched /\ NamedFields = {}) =>
             /\ Done
             /\ Len(reqs) = 1
             /\ ret = Returned(<<"Field '" \o args.field_name \o "' not found in dataset '"
                                   \o args.dataset_id \o "'.">>)
\* C6 witness: date analysis of a field the fetched schema does not have.
C6_Witness_AbsentField ==
    /\ tool = "analyze_date_field" /\ Done /\ SchemaFetched
    /\ FetchedFields # <<>> /\ NamedFields = {}
    /\ Len(reqs) = 1
    /\ ret = Returned(<<"Field 'missing' not found in dataset 'ds'.">>)

\* C7 (as claimed): every percentage of the reports computed against a total
\* that is zero, no number or unavailable is the cell "N/A", and the tool
\* returns its report: the value percentages of analyze_text_field, and one
\* fill rate per text, date and geographic field of
\* generate_dataset_statistics.
C7_TextCellsNA ==
    (tool = "analyze_text_field" /\ Done /\ Len(reqs) = 4
       /\ ~(loc.total_records.t \in {"int", "float"} /\ loc.total_records.v > 0)) =>
        /\ ret.kind = "text"
        /\ Len(ret.text) = 8 + Len(loc.values)
        /\ \A i \in DOMAIN loc.values :
             ret.text[8 + i] =
               "| " \o PyToStr(Get(loc.values[i], args.field_name, PyStr("N/A"))) \o " | "
                 \o PyToStr(Get(loc.values[i], "count", PyInt(0))) \o " | N/A |"
C7_FillRateCellsNA ==
    (tool = "generate_dataset_statistics" /\ Done /\ Has(loc, "groups")) =>
        /\ ret.kind = "text"
        /\ Len(loc.fill_rates)
             = Len(loc.groups.text) + Len(loc.groups.date) + Len(loc.groups.geo)
        /\ \A i \in DOMAIN loc.fill_rates :
             ~(loc.fill_rates[i].total.t \in {"int", "float"} /\ loc.fill_rates[i].total.v > 0)
               => loc.fill_rates[i].cell = "N/A"
\* C7 (as claimed), both reports together: no total, so "N/A" in every cell.
C7_NoTotalGivesNA == C7_TextCellsNA /\ C7_FillRateCellsNA
\* What does hold of generate_dataset_statistics: the cells are as claimed in
\* every invocation that does not read the total before assigning it.
C7_FillRateCellsNA_TotalAssigned ==
    (ret # Raised("UnboundLocalError")) => C7_FillRateCellsNA

\* The filters of the bucket requests issued so far, and the statistics they
\* were computed from.
BucketFilters == [i \in 1..(Len(reqs) - 2) |-> DictGet(reqs[i + 2].params.v, "where")]
ReportedMin == AsFloat(resps[2].doc["results"][1]["min"])
ReportedMax == AsFloat(resps[2].doc["results"][1]["max"])
\* the values checked: every quarter from min to max
QuarterValues ==
    {v \in ReportedMin..ReportedMax : v % (FloatOne \div 4) = 0}
\* C8 (as claimed): the 10 bucket filters analyze_numeric_field issues for
\* min < max partition [min, max]: every value v with min <= v <= max
\* satisfies exactly one of them.
C8_BucketsPartition ==
    (tool = "analyze_numeric_field" /\ Len(reqs) = 2 + 10) =>
        \A v \in QuarterValues :
          Cardinality({i \in DOMAIN BucketFilters : InRange(BucketFilters[i], v)}) = 1
\* What does hold: the filters are contiguous from min on, no value satisfies
\* two of them, and a value satisfies none exactly when it lies above the
\* last upper bound.
C8_BucketsDisjointFromMin ==
    (tool = "analyze_numeric_field" /\ Len(reqs) = 2 + 10) =>
        /\ BucketFilters[1].lower = ReportedMin
        /\ \A i \in 1..9 : BucketFilters[i].upper = BucketFilters[i + 1].lower
        /\ \A v \in QuarterValues :
             /\ Cardinality({i \in DOMAIN BucketFilters : InRange(BucketFilters[i], v)}) <= 1
             /\ (\A i \in DOMAIN BucketFilters : ~InRange(BucketFilters[i], v))
                  <=> v > BucketFilters[10].upper

\* The report of facet_analysis, and the facets of the response it was built from
FacetReportDone == Done /\ tool = "facet_analysis" /\ Len(resps) = 2
ReportFacets == loc.results["facets"]
FacetValuesOf(i) ==
    IF Has(ReportFacets[i], "facets") THEN ReportFacets[i]["facets"] ELSE <<>>
KeyCount(value) == IF Has(value, "count") THEN value["count"].v ELSE 0
ShownCount(n) == IF n < 20 THEN n ELSE 20
\* The lines a facet of n values takes in the report (its heading, then either
\* the "no values" line or the table and perhaps a note), and the number of
\* lines before the section of facet i
SectionSize(n) == IF n = 0 THEN 2 ELSE 3 + ShownCount(n) + (IF n > 20 THEN 1 ELSE 0)
RECURSIVE SectionStart(_)
SectionStart(i) ==
    IF i = 1 THEN 2 ELSE SectionStart(i - 1) + SectionSize(Len(FacetValuesOf(i - 1)))
FacetRowText(value) ==
    "| " \o (IF Has(value, "name") THEN PyToStr(value["name"]) ELSE "N/A") \o " | "
      \o ToString(KeyCount(value)) \o " | "
      \o (IF Has(value, "state") THEN PyToStr(value["state"]) ELSE "N/A") \o " |"
Occurrences(seq, x) == Cardinality({k \in DOMAIN seq : seq[k] = x})

\* C11: in facet_analysis the rows displayed for a facet are the first
\* min(20, n) of its n values in an order of non-increasing count (a missing
\* count is 0), so no displayed row has a smaller count than an omitted value.
C11_TopValuesByCount ==
    FacetReportDone =>
      \A i \in DOMAIN ReportFacets :
        LET values == FacetValuesOf(i)
            ordered == SortByCountDesc(values)
        IN  /\ Len(ordered) = Len(values)
            /\ \A k \in DOMAIN values :
                 Occurrences(ordered, values[k]) = Occurrences(values, values[k])
            /\ \A j, k \in DOMAIN ordered : j < k => KeyCount(ordered[j]) >= KeyCount(ordered[k])
            /\ \A k \in 1..ShownCount(Len(values)) :
                 ret.text[SectionStart(i) + 3 + k] = FacetRowText(ordered[k])
\* C11 witness: a facet of 21 values of which one is omitted, after the rows
\* of the values of larger count.
C11_Witness_Omitted ==
    /\ FacetReportDone
    /\ Len(ReportFacets) = 1 /\ Len(FacetValuesOf(1)) = 21
    /\ ret.text[SectionStart(1) + 3 + 1] = "| s2 | 4 | displayed |"
    /\ ret.text[SectionStart(1) + 3 + 20] = "| s15 | 0 | displayed |"

\* The note of a facet cut to 20 rows, stating k as the number of its values
NoteText(k) == "\n(Showing top 20 of " \o ToString(k) \o " values)"
\* The last line of the section of facet i
SectionLast(i) == ret.text[SectionStart(i) + SectionSize(Len(FacetValuesOf(i)))]
\* The numbers a note states: the 20 rows shown and the number after "of"
NoteNumbers(line) == {20} \cup {k \in 0..60 : line = NoteText(k)}

\* C12 (as claimed): a facet of n > 20 values carries a note of how many
\* values were omitted, n - 20; a facet of 20 or fewer values has no note.
C12_NoteOfOmitted ==
    FacetReportDone =>
      \A i \in DOMAIN ReportFacets :
        LET n == Len(FacetValuesOf(i))
        IN  IF n > 20
            THEN (\E k \in 0..60 : SectionLast(i) = NoteText(k))
                 /\ (n - 20) \in NoteNumbers(SectionLast(i))
            ELSE \A k \in 0..60 : SectionLast(i) # NoteText(k)
\* C12 (amended): the note of a facet of n > 20 values states the number of
\* shown rows and the total n, "(Showing top 20 of n values)", not the
\* number omitted; a facet of 20 or fewer values has no note.
C12_NoteOfTotal ==
    FacetReportDone =>
      /\ Len(ret.text) = SectionStart(Len(ReportFacets))
                           + SectionSize(Len(FacetValuesOf(Len(ReportFacets))))
      /\ \A i \in DOMAIN ReportFacets :
           LET n == Len(FacetValuesOf(i))
           IN  IF n > 20
               THEN SectionLast(i) = NoteText(n)
               ELSE \A j \in 1..SectionSize(n), k \in 0..60 :
                      ret.text[SectionStart(i) + j] # NoteText(k)
\* C12 witness: a facet of 21 values with its note, then one of 20 without.
C12_Witness_NoteAndNone ==
    /\ FacetReportDone
    /\ Len(ReportFacets) = 2
    /\ Len(FacetValuesOf(1)) = 21 /\ Len(FacetValuesOf(2)) = 20
    /\ SectionLast(1) = NoteText(21)
    /\ SectionLast(2) = "| s20 | 0 | displayed |"

\* analyze_date_field: the rows of the year-level distribution (none when the
\* lookup failed), the year of a row as the tool prints it, and the month
\* lookups issued so far, which are the requests after the first three
DateYearsKnown == tool = "analyze_date_field" /\ Len(resps) >= 3
YearLevelRows ==
    IF resps[3].ok /\ Has(resps[3].doc, "results") THEN resps[3].doc["results"] ELSE <<>>
RowYearText(row) == IF Has(row, "year") THEN PyToStr(row["year"]) ELSE "None"
LargerYears(rows, j) ==
    Cardinality({i \in DOMAIN rows :
                   /\ Has(rows[i], "year") /\ Has(rows[j], "year")
                   /\ rows[i]["year"].v > rows[j]["year"].v})
MonthLookups == [k \in 1..(Len(reqs) - 3) |-> reqs[k + 3]]
MonthLookupFor(req, text) ==
    /\ DictHas(req.params.v, "where")
    /\ DictGet(req.params.v, "where") = PyStr("year(" \o args.field_name \o ") = " \o text)
    /\ DictGet(req.params.v, "select")
         = PyStr("month(" \o args.field_name \o ") as month, count(*) as count")

\* C13: in analyze_date_field the k-th month lookup is for the k-th largest
\* year of the year-level distribution, there are at most min(5, n) of them
\* for n years, and an invocation no lookup of which failed issues exactly
\* min(5, n) when every row reports its year.
C13_MonthLookupsRecentYears ==
    DateYearsKnown =>
      LET rows == YearLevelRows
          n == Len(rows)
          most == IF n < 5 THEN n ELSE 5
      IN  /\ Len(MonthLookups) <= most
          /\ \A k \in DOMAIN MonthLookups :
               \E j \in DOMAIN rows :
                 /\ LargerYears(rows, j) = k - 1
                 /\ MonthLookupFor(MonthLookups[k], RowYearText(rows[j]))
          /\ (Done /\ (\A i \in DOMAIN resps : i > 3 => resps[i].ok)
                /\ (\A j \in DOMAIN rows : Has(rows[j], "year")))
               => Len(MonthLookups) = most
\* C13 witness: six years reported, five month lookups, the last one for the
\* fifth largest year.
C13_Witness_SixYears ==
    /\ DateYearsKnown /\ Done
    /\ Len(YearLevelRows) = 6
    /\ Len(MonthLookups) = 5
    /\ MonthLookupFor(MonthLookups[1], "2023")
    /\ MonthLookupFor(MonthLookups[5], "2019")

\* The decoded response of the one lookup of list_dataset_fields
FieldsLookedUp == tool = "list_dataset_fields" /\ Len(resps) = 1 /\ resps[1].ok
LookupFieldsEmpty ==
    ~Has(resps[1].doc, "fields") \/ resps[1].doc["fields"] = <<>>

\* C14: list_dataset_fields, given a non-empty lookup response whose fields
\* are empty or absent, returns exactly "No fields found for dataset '<id>'.";
\* given an empty lookup response it returns "Dataset with ID '<id>' not
\* found." instead.
C14_NoFieldsMessage ==
    FieldsLookedUp =>
      /\ (resps[1].doc # EmptyDoc /\ LookupFieldsEmpty) =>
           ret = Returned(<<"No fields found for dataset '" \o args.dataset_id \o "'.">>)
      /\ resps[1].doc = EmptyDoc =>
           ret = Returned(<<"Dataset with ID '" \o args.dataset_id \o "' not found.">>)
\* C14 witness: the lookup returned {"fields": []}.
C14_Witness_EmptyFields ==
    /\ FieldsLookedUp /\ Done
    /\ resps[1].doc = [fields |-> <<>>]
    /\ ret = Returned(<<"No fields found for dataset 'ds'.">>)

(***************************************************************************)
(* The API client's requests.                                              *)
(***************************************************************************)
\* An argument the caller gave: neither None nor the empty text.
Given(x) == x # NoneV /\ x # PyStr("") /\ x # PyChars(<<>>)

ClauseNames == {"select", "where", "group_by", "order_by"}
SentParams == reqs[1].params.v
SentAs(name) == {SentParams[i].v : i \in {j \in DOMAIN SentParams : SentParams[j].k = name}}
RecordsCallSent == tool = "OdsApiClient.get_dataset_records" /\ Len(reqs) = 1

\* C18: OdsApiClient.get_dataset_records sends each of select, where,
\* group_by, order_by as a query parameter exactly when the argument is
\* given, with the value the caller gave and nothing in place of an absent
\* clause; limit and offset are always sent, and no other parameter is.
C18_ClausesPassThrough ==
    RecordsCallSent =>
        /\ \A name \in ClauseNames :
             SentAs(name) = IF Given(args[name]) THEN {args[name]} ELSE {}
        /\ SentAs("limit") = {PyInt(args.limit)}
        /\ SentAs("offset") = {PyInt(args.offset)}
        /\ \A i, j \in DOMAIN SentParams :
             /\ SentParams[i].k \in ClauseNames \cup {"limit", "offset"}
             /\ SentParams[i].k = SentParams[j].k => i = j

C18_Witness_SomeClausesAbsent ==
    /\ RecordsCallSent
    /\ args.select = PyStr("a, b") /\ args.where = NoneV
    /\ args.group_by = PyStr("") /\ args.order_by = PyStr("a desc")
    /\ Len(SentParams) = 4

\* The query string urlencode gives each sample argument of export_records.
EncodedClause(name) ==
    CASE name = "select" -> "select=a%2C+b"
      [] name = "where" -> "where=a+%3E+1"
      [] name = "group_by" -> "group_by=a"
      [] name = "order_by" -> "order_by=a+desc"
      [] name = "limit" -> IF args.limit = PyInt(0) THEN "limit=0" ELSE "limit=50"
ExportOrder == <<"select", "where", "group_by", "order_by", "limit">>
ExportGiven(name) == IF name = "limit" THEN args.limit # NoneV ELSE Given(args[name])
RECURSIVE ExpectedQuery(_)
ExpectedQuery(n) ==
    IF n = 0 THEN ""
    ELSE LET before == ExpectedQuery(n - 1)
         IN  IF ExportGiven(ExportOrder[n])
             THEN before \o (IF before = "" THEN "" ELSE "&") \o EncodedClause(ExportOrder[n])
             ELSE before
ExportCalled == tool = "OdsApiClient.export_records" /\ pc = "done"

\* C19: OdsApiClient.export_records issues no upstream request and returns
\* the URL of the export path of the dataset and format, whose query string
\* holds select, where, group_by, order_by each exactly when given, in that
\* order, and then limit exactly when a limit is given, 0 included.
C19_ExportUrl ==
    ExportCalled =>
        /\ reqs = <<>>
        /\ ret = ReturnedValue(PyStr(
               "https://ods.example/api/explore/v2.1/catalog/datasets/" \o args.dataset_id
                 \o "/exports/" \o args.export_format \o "?"
                 \o ExpectedQuery(Len(ExportOrder))))

C19_Witness_LimitZero ==
    /\ ExportCalled
    /\ args.limit = PyInt(0) /\ args.select = PyChars(<<>>) /\ args.where # NoneV
    /\ ret = ReturnedValue(PyStr(
           "https://ods.example/api/explore/v2.1/catalog/datasets/ds/exports/csv?where=a+%3E+1&limit=0"))

\* The path each client method requests.
MethodPath ==
    CASE tool = "OdsApiClient.list_datasets" -> "/catalog/datasets"
      [] tool = "OdsApiClient.search_datasets" -> "/catalog/datasets"
      [] tool = "OdsApiClient.get_dataset" -> "/catalog/datasets/" \o args.dataset_id
      [] tool = "OdsApiClient.get_dataset_records" -> "/catalog/datasets/ds/records"
      [] tool = "OdsApiClient.search_records" -> "/catalog/datasets/ds/records"
      [] tool = "OdsApiClient.get_dataset_facets" -> "/catalog/datasets/ds/facets"
      [] OTHER -> ""
KeyConfigured == client.api_key = PyStr("K")

\* C20: every upstream request carries the single header
\* "Authorization: Apikey <key>" when an API key is configured and no header
\* otherwise, and its URL is the base URL without trailing slashes, then
\* /api/explore/v2.1, then the path of the endpoint.
C20_RequestHeaderAndUrl ==
    \A i \in DOMAIN reqs :
        /\ reqs[i].headers =
             IF KeyConfigured THEN <<[k |-> "Authorization", v |-> "Apikey K"]>> ELSE <<>>
        /\ reqs[i].url = "https://ods.example" \o "/api/explore/v2.1" \o MethodPath

C20_Witness_KeyConfigured ==
    /\ Len(reqs) = 1 /\ KeyConfigured
    /\ reqs[1].url = "https://ods.example/api/explore/v2.1/catalog/datasets/a/b"
    /\ reqs[1].headers # <<>>

(***************************************************************************)
(* Keys absent from the upstream documents.                                *)
(***************************************************************************)
NamedPlaceholders ==
    {"Untitled Dataset", "Unknown Publisher", "N/A", "Unknown", "Unknown License",
     "Unnamed", "Unknown Dataset", "No description available."}

\* The text a key of document d shows as, with the text an absent key gets.
Shown(d, key, absent) == IF key \in DOMAIN d THEN PyToStr(d[key]) ELSE absent
MetaOf(d) ==
    IF "metas" \in DOMAIN d /\ "default" \in DOMAIN d["metas"]
    THEN d["metas"]["default"] ELSE EmptyDoc
FieldsOf(d) == IF "fields" \in DOMAIN d THEN d["fields"] ELSE <<>>

\* A place of a report where a key of document d is shown: the line, what
\* stands before and after the key's text, and the text of an absent key.
Slot(d, key, line, before, after, default) ==
    [absent |-> key \notin DOMAIN d, line |-> line, before |-> before, after |-> after,
     default |-> default]

\* The line "<lead><label><mid><name>): <type><tail>" of one schema field.
FieldSlots(f, line, lead, mid, tail) ==
    LET name == Shown(f, "name", "Unnamed")
        label == Shown(f, "label", name)
        type == Shown(f, "type", "Unknown")
    IN  {Slot(f, "name", line, lead \o label \o mid, "): " \o type \o tail, "Unnamed"),
         Slot(f, "label", line, lead, mid \o name \o "): " \o type \o tail, name),
         Slot(f, "type", line, lead \o label \o mid \o name \o "): ", tail, "Unknown")}
FieldNote(f) ==
    IF "description" \in DOMAIN f /\ f["description"] # PyStr("")
    THEN " - " \o PyToStr(f["description"]) ELSE ""

InfoReported ==
    /\ tool = "get_dataset_info" /\ Done
    /\ resps[1].ok /\ resps[1].doc # EmptyDoc
InfoSlots ==
    LET d == resps[1].doc
        m == MetaOf(d)
    IN  {Slot(m, "title", ret.text[1], "Dataset: ", " (ID: " \o args.dataset_id \o ")",
              "Untitled Dataset"),
         Slot(m, "publisher", ret.text[2], "Publisher: ", "", "Unknown Publisher"),
         Slot(m, "records_count", ret.text[3], "Record Count: ", "", "Unknown"),
         Slot(m, "description", ret.text[5], "", "", "No description available.")}
        \cup UNION {FieldSlots(FieldsOf(d)[i], ret.text[6 + i], "  - ", " (",
                               FieldNote(FieldsOf(d)[i])) : i \in DOMAIN FieldsOf(d)}

SummaryReported ==
    /\ tool = "summarize_dataset" /\ Done
    /\ Len(resps) = 2
SummarySlots ==
    LET d == resps[1].doc
        m == MetaOf(d)
    IN  {Slot(m, "title", ret.text[1], "# Dataset Summary: ", "", "Untitled Dataset"),
         Slot(m, "publisher", ret.text[4], "- **Publisher**: ", "", "Unknown Publisher"),
         Slot(m, "theme", ret.text[5], "- **Theme**: ", "", ""),
         Slot(m, "license", ret.text[6], "- **License**: ", "", "Unknown License"),
         Slot(m, "records_count", ret.text[7], "- **Records Count**: ", "", "Unknown"),
         Slot(m, "description", ret.text[9], "", "", "No description available.")}
        \cup UNION {FieldSlots(FieldsOf(d)[i], ret.text[10 + i], "- **", "** (", "")
                      : i \in DOMAIN FieldsOf(d)}

SearchReported ==
    /\ tool = "search_datasets" /\ Done
    /\ resps[1].ok /\ "results" \in DOMAIN resps[1].doc /\ resps[1].doc["results"] # <<>>
SearchSlots ==
    LET d == resps[1].doc
        found == d["results"]
        EntrySlots(i) ==
            LET e == found[i]
                m == MetaOf(e)
                at == 3 * (i - 1) + 1
            IN  {Slot(e, "dataset_id", ret.text[at + 1],
                      "\n" \o ToString(i) \o ". " \o Shown(m, "title", "Untitled Dataset")
                        \o " (ID: ", ")", "N/A"),
                 Slot(m, "title", ret.text[at + 1], "\n" \o ToString(i) \o ". ",
                      " (ID: " \o Shown(e, "dataset_id", "N/A") \o ")", "Untitled Dataset"),
                 Slot(m, "publisher", ret.text[at + 2], "   Publisher: ", "",
                      "Unknown Publisher"),
                 Slot(m, "description", ret.text[at + 3], "   Description: ", "",
                      "No description available.")}
    IN  {Slot(d, "total_count", ret.text[1], "Found ",
              " datasets matching '" \o args.query \o "'. Here are the first "
                \o ToString(Len(found)) \o " results:", "0")}
        \cup UNION {EntrySlots(i) : i \in DOMAIN found}

\* The places of the report in hand whose key the upstream document lacks.
AbsentSlots ==
    {s \in (IF InfoReported THEN InfoSlots
            ELSE IF SummaryReported THEN SummarySlots
            ELSE IF SearchReported THEN SearchSlots ELSE {}) : s.absent}
MetadataTools == {"search_datasets", "get_dataset_info", "summarize_dataset"}

BothInvoked == parked # NoFrame /\ tool # "idle"
SameInputs == tool = parked.tool /\ args = parked.args /\ resps = parked.resps

SoloTools == {"summarize_dataset"}
SoloResult(t, a, rs) ==
    IF ~rs[1].ok
    THEN Returned(<<"Error retrieving dataset information: " \o rs[1].exc>>)
    ELSE IF rs[1].doc = EmptyDoc
    THEN Returned(<<"Dataset with ID '" \o a.dataset_id \o "' not found.">>)
    ELSE SummaryReport(a.dataset_id, rs[1].doc,
             IF rs[2].ok /\ "results" \in DOMAIN rs[2].doc
             THEN rs[2].doc["results"] ELSE <<>>)
EndedAsSolo(f) ==
    (f.tool \in SoloTools /\ f.pc = "done") => f.ret = SoloResult(f.tool, f.args, f.resps)

\* C16: however two invocations are interleaved at their requests, each one
\* that ended returns what it returns alone against the same responses, and
\* the client's base_url, api_key and api_path are what they were at start.
C16_InterleavedAsSolo ==
    /\ client = DefaultClient
    /\ EndedAsSolo(CurrentFrame)
    /\ parked # NoFrame => EndedAsSolo(parked)

C16_Witness_EndedWhileOtherSuspended ==
    /\ tool = "summarize_dataset" /\ Done /\ Len(resps) = 2
    /\ ret.kind = "text" /\ Len(ret.text) > 10
    /\ parked # NoFrame
    /\ parked.tool = "generate_dataset_statistics" /\ parked.pc = "numeric"

(***************************************************************************)
(* Failures are not retried.                                               *)
(***************************************************************************)
FailedAt(i) == i \in DOMAIN resps /\ ~resps[i].ok
LoopRequest(i) ==
    \/ tool = "analyze_numeric_field" /\ i >= 3
    \/ tool = "analyze_date_field" /\ i >= 4

\* C21: within one invocation, once an upstream request has failed, no later
\* request has its path and parameters; a failure inside the bucket loop or
\* the month loop ends the loop, so that no request at all follows it.
C21_NoRetry ==
    \A i \in DOMAIN reqs :
        FailedAt(i) =>
            /\ \A j \in DOMAIN reqs : j > i => reqs[j] # reqs[i]
            /\ LoopRequest(i) => i = Len(reqs)

C21_Witness_FailureThenNextLookup ==
    /\ tool = "analyze_text_field" /\ Done
    /\ Len(reqs) = 4 /\ FailedAt(3) /\ ~FailedAt(4)
    /\ ret.kind = "text"

(***************************************************************************)
(* The description clean-up.                                               *)
(***************************************************************************)
MarkupTags == {<<"<", "p", ">">>, <<"<", "/", "p", ">">>, <<"<", "b", "r", ">">>}
Contains(cs, pat) ==
    \E i \in 1..(Len(cs) - Len(pat) + 1) : SubSeq(cs, i, i + Len(pat) - 1) = pat
DescriptionGiven ==
    /\ SummaryReported
    /\ "description" \in DOMAIN MetaOf(resps[1].doc)

\* C22 (as claimed): the description line of a report is the cleaned
\* description, and it contains no occurrence of <p>, </p> or <br>, whatever
\* the description was.
C22_CleanedHasNoMarkup ==
    DescriptionGiven =>
        LET shown == CleanDescription(MetaOf(resps[1].doc)["description"].v)
        IN  /\ ret.text[9] = Concat(shown)
            /\ \A tag \in MarkupTags : ~Contains(shown, tag)

\* The clean-up does remove the tags of a description in which no tag is
\* written inside another one.
C22_PlainTagsRemoved ==
    (DescriptionGiven
       /\ ~Contains(MetaOf(resps[1].doc)["description"].v, <<"<", "<", "p", ">">>)) =>
        \A tag \in MarkupTags :
            ~Contains(CleanDescription(MetaOf(resps[1].doc)["description"].v), tag)

(***************************************************************************)
(* analyze_numeric_field: when there is a distribution.                    *)
(***************************************************************************)
NumericStatsKnown ==
    /\ tool = "analyze_numeric_field"
    /\ Len(resps) >= 2 /\ resps[2].ok
    /\ "results" \in DOMAIN resps[2].doc /\ resps[2].doc["results"] # <<>>
NumericStatRow == resps[2].doc["results"][1]
StatShown(key) == IF key \in DOMAIN NumericStatRow THEN PyToStr(NumericStatRow[key]) ELSE "N/A"
BasicStatisticsReported ==
    /\ ret.kind = "text" /\ Len(ret.text) >= 7
    /\ ret.text[3] = "\n## Basic Statistics"
    /\ ret.text[4] = "- **Count**: " \o StatShown("count")
    /\ ret.text[5] = "- **Minimum**: " \o StatShown("min")
    /\ ret.text[6] = "- **Maximum**: " \o StatShown("max")
    /\ ret.text[7] = "- **Average**: " \o StatShown("avg")
HasDistributionSection ==
    \E i \in DOMAIN ret.text : ret.text[i] = "\n## Value Distribution"
EqualMinMax ==
    /\ NumericStatsKnown
    /\ "min" \in DOMAIN NumericStatRow /\ "max" \in DOMAIN NumericStatRow
    /\ IsNumber(NumericStatRow["min"]) /\ IsNumber(NumericStatRow["max"])
    /\ AsFloat(NumericStatRow["min"]) = AsFloat(NumericStatRow["max"])

\* C23: in analyze_numeric_field, when the reported minimum equals the
\* reported maximum the invocation ends after the statistics request: no
\* bucket request is issued, the report has no Value Distribution section
\* and it does have the four basic statistics.
C23_EqualMinMaxNoDistribution ==
    EqualMinMax =>
        /\ Done /\ Len(reqs) = 2
        /\ BasicStatisticsReported
        /\ Len(ret.text) = 7
        /\ ~HasDistributionSection

C23_Witness_MinIsMax ==
    /\ EqualMinMax /\ Done
    /\ NumericStatRow = NumericStats(2, 2)
    /\ ret.text[5] = "- **Minimum**: 2.0" /\ ret.text[6] = "- **Maximum**: 2.0"

SearchRecordsSent == tool = "OdsApiClient.search_records" /\ Len(reqs) = 1

\* C24: OdsApiClient.search_records sends, for every query, the parameters
\* limit, offset and where and no other: where is "search(" then the query
\* as given then ")", limit is the given limit and offset is 0.
C24_SearchFilterVerbatim ==
    SearchRecordsSent =>
        SentParams = <<[k |-> "limit", v |-> PyInt(args.limit)],
                       [k |-> "offset", v |-> PyInt(0)],
                       [k |-> "where", v |-> PyStr("search(" \o args.query \o ")")]>>

C24_Witness_QueryWithParenthesis ==
    /\ SearchRecordsSent
    /\ args.query = "a) OR (b" /\ args.limit = 3
    /\ SentAs("where") = {PyStr("search(a) OR (b)")}

(***************************************************************************)
(* generate_dataset_statistics: the report and its groups.                 *)
(***************************************************************************)
StatisticsSchemaKnown ==
    /\ tool = "generate_dataset_statistics"
    /\ Len(resps) >= 1 /\ resps[1].ok
    /\ FieldsOf(resps[1].doc) # <<>>
StatisticsFields == FieldsOf(resps[1].doc)

\* C25 (as claimed): generate_dataset_statistics ends with a report for every
\* dataset that has at least one field, whatever the types of its fields, a
\* dataset with date or geographic fields and no text field included.
C25_ReportForEveryMix ==
    (StatisticsSchemaKnown /\ Done) => ret.kind = "text"

\* Whenever a text field precedes the date and geographic sections, the total
\* is assigned and the tool does end with a report.
C25_ReportWhenTextField ==
    (StatisticsSchemaKnown /\ Done
       /\ \E i \in DOMAIN StatisticsFields :
            "type" \in DOMAIN StatisticsFields[i]
            /\ StatisticsFields[i]["type"] = PyStr("text")) =>
        ret.kind = "text"

(***************************************************************************)
(* list_datasets_by_publisher: the theme of an entry.                      *)
(***************************************************************************)
PublisherListed ==
    /\ tool = "list_datasets_by_publisher" /\ Done
    /\ resps[1].ok
    /\ "results" \in DOMAIN resps[1].doc /\ resps[1].doc["results"] # <<>>
ListedEntries == resps[1].doc["results"]
ThemeIsEmptyList(e) ==
    "theme" \in DOMAIN MetaOf(e) /\ MetaOf(e)["theme"] = PyList(<<>>)

\* C28 (as claimed): list_datasets_by_publisher returns a report whatever the
\* theme of each listing entry is: absent, an empty list or a non-empty list.
C28_ReportForEveryTheme ==
    PublisherListed => ret.kind = "text"

\* With no entry whose theme is an empty list the tool returns a report, and
\* an entry without a theme has a Records line that ends after the count.
C28_ReportUnlessEmptyList ==
    (PublisherListed /\ \A i \in DOMAIN ListedEntries : ~ThemeIsEmptyList(ListedEntries[i])) =>
        /\ ret.kind = "text"
        /\ \A i \in DOMAIN ListedEntries :
             "theme" \notin DOMAIN MetaOf(ListedEntries[i]) =>
                 ret.text[2 * i + 1] =
                     "   Records: " \o Shown(MetaOf(ListedEntries[i]), "records_count", "Unknown")

BucketLookupFailed ==
    \E i \in DOMAIN resps :
        i >= 3 /\ (~resps[i].ok \/ ("results" \in DOMAIN resps[i].doc
                                      /\ resps[i].doc["results"] = <<>>))
NumericReported == NumericStatsKnown /\ Done
FullDistribution ==
    /\ Len(ret.text) = 7 + 3 + BucketCount
    /\ ret.text[8] = "\n## Value Distribution"
    /\ ret.text[9] = "| Range | Count |"
    /\ ret.text[10] = "| --- | --- |"
    /\ Len(reqs) = 2 + BucketCount
NoDistribution == Len(ret.text) = 7 /\ ~HasDistributionSection

\* C26: the Value Distribution of analyze_numeric_field is all or nothing:
\* every report has the basic statistics and then either the section with
\* exactly 10 bucket rows, one per bucket lookup, or no section at all; when
\* a bucket lookup fails the report has no section.
C26_DistributionAllOrNothing ==
    NumericReported =>
        /\ BasicStatisticsReported
        /\ FullDistribution \/ NoDistribution
        /\ BucketLookupFailed => NoDistribution

C26_Witness_FifthBucketFails ==
    /\ NumericReported
    /\ Len(reqs) = 7 /\ ~resps[7].ok
    /\ NoDistribution

\* The rows of the month-level responses of an ended analyze_date_field
MonthLevelRows ==
    Flatten([k \in 1..(Len(resps) - 3) |->
               IF resps[k + 3].ok /\ Has(resps[k + 3].doc, "results")
               THEN resps[k + 3].doc["results"] ELSE <<>>])
MonthsAnalysed ==
    /\ tool = "analyze_date_field" /\ Done
    /\ Len(resps) > 3
    /\ MonthLevelRows # <<>>
ReportsMonth(row, k) == Has(row, "month") /\ row["month"] = PyInt(k)
ReportsNoMonth(row) == \A k \in 1..12 : ~ReportsMonth(row, k)
\* The report has a month row of that name and count
LabelledAs(row, k) ==
    /\ ret.kind = "text"
    /\ \E n \in DOMAIN ret.text :
         ret.text[n] = "| " \o MonthNames[k] \o " | "
                         \o PyToStr(Get(row, "count", PyInt(0))) \o " |"

\* C27 (as claimed): in the monthly distribution of analyze_date_field a row
\* is labelled with the name of month k only if an upstream row of that count
\* reported month number k, and a row that lacks a month number or reports
\* one outside 1..12 never makes the tool raise.
C27_MonthLabelsFaithful ==
    MonthsAnalysed =>
        /\ ret.kind # "raised"
        /\ \A j \in DOMAIN MonthLevelRows, k \in 1..12 :
             LabelledAs(MonthLevelRows[j], k) =>
                 \E h \in DOMAIN MonthLevelRows :
                     /\ ReportsMonth(MonthLevelRows[h], k)
                     /\ Get(MonthLevelRows[h], "count", PyInt(0))
                          = Get(MonthLevelRows[j], "count", PyInt(0))

\* C27 (what the code does): when every upstream row reports a month number
\* in 1..12 the tool returns a report and each row carries the name of its
\* month.
C27_NumberedMonthsLabelled ==
    (MonthsAnalysed /\ \A j \in DOMAIN MonthLevelRows : ~ReportsNoMonth(MonthLevelRows[j]))
        => /\ ret.kind = "text"
           /\ \A j \in DOMAIN MonthLevelRows :
                \E k \in 1..12 : /\ ReportsMonth(MonthLevelRows[j], k)
                                 /\ LabelledAs(MonthLevelRows[j], k)
\* A row without a month number is labelled December
C27_Seen_DecemberWithoutMonth ==
    /\ MonthsAnalysed
    /\ \A j \in DOMAIN MonthLevelRows : ~Has(MonthLevelRows[j], "month")
    /\ LabelledAs(MonthLevelRows[1], 12)
\* Month number 13 raises IndexError
C27_Seen_RaisedForThirteen ==
    /\ MonthsAnalysed
    /\ ret = Raised("IndexError")
    /\ \E j \in DOMAIN MonthLevelRows : ReportsMonth(MonthLevelRows[j], 13)

\* An ended invocation of get_export_url
ExportReported == tool = "get_export_url" /\ Done /\ ret.kind = "text"
\* The entry of a clause in the "Query parameters" line
ListedClause(name) ==
    CASE name = "select" -> "SELECT: a, b"
      [] name = "where" -> "WHERE: a > 1"
      [] name = "group_by" -> "GROUP BY: a"
      [] name = "order_by" -> "ORDER BY: a desc"
      [] name = "limit" -> IF args.limit = PyInt(0) THEN "LIMIT: 0" ELSE "LIMIT: 50"
\* The clauses of S in the order of the code, as the query string of the URL
\* and as the "Query parameters" line
RECURSIVE QueryOf(_, _)
QueryOf(S, n) ==
    IF n = 0 THEN ""
    ELSE LET before == QueryOf(S, n - 1)
         IN  IF ExportOrder[n] \in S
             THEN before \o (IF before = "" THEN "" ELSE "&") \o EncodedClause(ExportOrder[n])
             ELSE before
RECURSIVE ListingOf(_, _)
ListingOf(S, n) ==
    IF n = 0 THEN ""
    ELSE LET before == ListingOf(S, n - 1)
         IN  IF ExportOrder[n] \in S
             THEN before \o (IF before = "" THEN "" ELSE ", ") \o ListedClause(ExportOrder[n])
             ELSE before
UrlLine(S) ==
    "\nExport URL: https://ods.example/api/explore/v2.1/catalog/datasets/"
      \o args.dataset_id \o "/exports/" \o args.export_format \o "?"
      \o QueryOf(S, Len(ExportOrder))
\* The report prints the URL with exactly the clauses of S and lists exactly
\* the clauses of S (no line when S is empty)
ListsWhatUrlHas(S) ==
    IF S = {}
    THEN Len(ret.text) = 4 /\ ret.text[3] = UrlLine(S)
    ELSE /\ Len(ret.text) = 5
         /\ ret.text[3] = "Query parameters: " \o ListingOf(S, Len(ExportOrder))
         /\ ret.text[4] = UrlLine(S)
ExportClauses == {ExportOrder[n] : n \in DOMAIN ExportOrder}

\* C29 (as claimed): the "Query parameters" line of get_export_url lists a
\* clause exactly when the clause is in the query string of the export URL of
\* the same report, LIMIT included for every limit value.
C29_ListedIffInUrl ==
    ExportReported => \E S \in SUBSET ExportClauses : ListsWhatUrlHas(S)

\* C29 (what the code does): the same holds whenever the limit is not 0.
C29_ListedIffInUrlUnlessZero ==
    (ExportReported /\ args.limit # PyInt(0))
        => \E S \in SUBSET ExportClauses : ListsWhatUrlHas(S)
\* limit = 0 alone: the URL ends in "?limit=0" and no clause is listed
C29_Seen_LimitZeroUnlisted ==
    /\ ExportReported
    /\ args.limit = PyInt(0) /\ ~Truthy(args.select) /\ args.where = NoneV
    /\ args.group_by = NoneV /\ args.order_by = NoneV
    /\ Len(ret.text) = 4
    /\ ret.text[3] = UrlLine({"limit"})
\* Clauses and a non-zero limit: both listed and in the URL
C29_Seen_LimitFiftyListed ==
    /\ ExportReported
    /\ args.limit = PyInt(50) /\ args.where # NoneV
    /\ ListsWhatUrlHas({"where", "limit"})

\* The five counts under "Field Count by Type", read back from the report
CountPrefixes ==
    <<"- **Numeric Fields**: ", "- **Text Fields**: ", "- **Date Fields**: ",
      "- **Geographic Fields**: ", "- **Other Fields**: ">>
GroupCountIsShown(g, n) == ret.text[3 + g] = CountPrefixes[g] \o ToString(n)
ShownGroupCount(g) ==
    IF \E n \in 0..Len(StatisticsFields) : GroupCountIsShown(g, n)
    THEN CHOOSE n \in 0..Len(StatisticsFields) : GroupCountIsShown(g, n)
    ELSE 0 - 1
CountsSumToFields ==
    /\ Len(ret.text) >= 9
    /\ ret.text[3] = "\n## Field Count by Type"
    /\ \A g \in 1..5 : ShownGroupCount(g) >= 0
    /\ ShownGroupCount(1) + ShownGroupCount(2) + ShownGroupCount(3) + ShownGroupCount(4) + ShownGroupCount(5)
         = Len(StatisticsFields)
\* The lines of the detail tables that are no rows
TableHeads ==
    {"\n### Numeric Fields", "| Field | Type | Count | Min | Max | Average |",
     "| --- | --- | --- | --- | --- | --- |",
     "\n### Text Fields", "| Field | Distinct Values | Fill Rate |", "| --- | --- | --- |",
     "\n### Date Fields", "| Field | Earliest Date | Latest Date | Fill Rate |",
     "| --- | --- | --- | --- |",
     "\n### Geographic Fields", "| Field | Type | Fill Rate |",
     "\n### Other Fields", "| Field | Type |", "| --- | --- |"}
DetailLines == {n \in 10..Len(ret.text) : ret.text[n] \notin TableHeads}
\* The rows a field can have in any of the five tables, given the responses
\* of the invocation
DetailRowsOf(field) ==
    LET f == FieldTriple(field)
        totals == {FetchedTotal(resps[j]) : j \in DOMAIN resps}
    IN  {NumericRow(f, StatValues(resps[i])) : i \in DOMAIN resps}
        \cup {TextFieldRow(f, resps[i], t) : i \in DOMAIN resps, t \in totals}
        \cup {DateFieldRow(f, resps[i], t) : i \in DOMAIN resps, t \in totals}
        \cup {GeoFieldRow(f, resps[i], t) : i \in DOMAIN resps, t \in totals}
        \cup {"| " \o FieldCell(f) \o " | " \o PyToStr(f.type) \o " |"}
EachFieldInOneRow ==
    /\ Cardinality(DetailLines) = Len(StatisticsFields)
    /\ \A i \in DOMAIN StatisticsFields :
         Cardinality({n \in DetailLines : ret.text[n] \in DetailRowsOf(StatisticsFields[i])}) = 1

\* C30 (as claimed): generate_dataset_statistics places every field of the
\* schema in exactly one of the five groups: its report shows five counts that
\* sum to the number of fields and has each field in exactly one detail row.
C30_EachFieldOneGroupOneRow ==
    (StatisticsSchemaKnown /\ Done) =>
        /\ ret.kind = "text"
        /\ CountsSumToFields
        /\ EachFieldInOneRow

\* C30 (what the code does): every report the tool returns shows five counts
\* that sum to the number of fields and has each field in exactly one row.
C30_GroupedWhenReported ==
    (StatisticsSchemaKnown /\ Done /\ ret.kind = "text") =>
        /\ CountsSumToFields
        /\ EachFieldInOneRow
\* The schema of six fields, one for each group and two numeric, reported
C30_Seen_SixFieldsReported ==
    /\ StatisticsSchemaKnown /\ Done /\ ret.kind = "text"
    /\ Len(StatisticsFields) = 6
    /\ ShownGroupCount(1) = 2 /\ ShownGroupCount(5) = 1
    /\ EachFieldInOneRow
\* Date fields and no text field: no report, hence no row for either field
C30_Seen_DateFieldsNoRow ==
    /\ StatisticsSchemaKnown /\ Done
    /\ Len(StatisticsFields) = 2
    /\ ret = Raised("UnboundLocalError")

\* The reports of get_dataset_records and get_dataset_aggregates that were
\* built from a non-empty result list.
TabularReport ==
    /\ Done /\ Len(resps) = 2
    /\ tool \in {"get_dataset_records", "get_dataset_aggregates"}
ReportRecords == loc.results["results"]
FirstKeys == RecordKeys(ReportRecords[1])
\* the number of lines before the body of the report
BodyOffset == IF tool = "get_dataset_records" THEN 2 ELSE 3
SeparatorRow(n) == "| " \o JoinStr([j \in 1..n |-> "---"], " | ") \o " |"
HasTable == ret.text[BodyOffset + 2] = SeparatorRow(Len(FirstKeys))
HasListing ==
    /\ Len(ret.text) >= BodyOffset + 2
    /\ ret.text[BodyOffset + 2] = "\nRecord 1:"

\* C9: in the record and aggregate tables the columns are the keys of the
\* first record, in its order; every data row has one cell per column, in the
\* column order, and the cell of a key the record lacks is empty.
C9_ExpectedCell(record, key) ==
    IF \E j \in DOMAIN record : record[j].k = key
    THEN LET x == record[CHOOSE j \in DOMAIN record : record[j].k = key].v
         IN  IF x.t = "list" THEN JsonDumps(x) ELSE PyToStr(x)
    ELSE ""
C9_ExpectedRow(record) ==
    "| " \o JoinStr([j \in DOMAIN FirstKeys |-> C9_ExpectedCell(record, FirstKeys[j])],
                    " | ") \o " |"
C9_TableAligned ==
    (TabularReport /\ HasTable) =>
        /\ ret.text[BodyOffset + 1] = "\n| " \o JoinStr(FirstKeys, " | ") \o " |"
        /\ Len(ret.text) >= BodyOffset + 2 + Len(ReportRecords)
        /\ \A i \in DOMAIN ReportRecords :
              ret.text[BodyOffset + 2 + i] = C9_ExpectedRow(ReportRecords[i])
\* C9 witness: the records [{"a": 1, "b": 2}, {"a": 3}] rendered with an empty
\* cell in column b of the second row.
C9_Witness_MissingKey ==
    /\ TabularReport /\ tool = "get_dataset_records"
    /\ ReportRecords = <<RecAB, RecA>>
    /\ ret.text[3] = "\n| a | b |"
    /\ ret.text[5] = "| 1 | 2 |"
    /\ ret.text[6] = "| 3 |  |"

\* C10 (as claimed): in get_dataset_records and get_dataset_aggregates, a first
\* record of more than 10 fields gives a report without table that lists the
\* records key by key; 10 or fewer fields give a table.
C10_WideSwitchesToListing ==
    TabularReport =>
        IF Len(FirstKeys) > 10 THEN ~HasTable /\ HasListing ELSE HasTable
\* C10 (amended): that holds of get_dataset_records; get_dataset_aggregates
\* renders a table whatever the number of fields.
C10_WideSwitchRecordsOnly ==
    TabularReport =>
        IF tool = "get_dataset_records" /\ Len(FirstKeys) > 10
        THEN ~HasTable /\ HasListing
        ELSE HasTable /\ ~HasListing
\* C10 witness: get_dataset_records listed records of 11 fields.
C10_Witness_WideRecords ==
    /\ TabularReport /\ tool = "get_dataset_records"
    /\ Len(FirstKeys) = 11
    /\ HasListing
\* C10: get_dataset_aggregates laid 11 fields out as a table.
C10_Witness_WideAggregates ==
    /\ TabularReport /\ tool = "get_dataset_aggregates"
    /\ Len(FirstKeys) = 11
    /\ HasTable

====
